---------------------------- MODULE Spec2Model ----------------------------
(***************************************************************************)
(* Model of the trading-assistant decision pipeline:                       *)
(*   engine/scoring.py        build_score_breakdown, decide_from_factors   *)
(*   engine/risk.py           apply_sizing                                 *)
(*   engine/decision_layer.py run_decisions (gates + cooldown throttle)    *)
(*                                                                         *)
(* Fixed-point encodings (every float of the code is a scaled integer):    *)
(*   confidence / score : tenths            (8.0  -> 80, 0.5 -> 5)         *)
(*   rr, min_rr, risk_mult : tenths         (2.0  -> 20)                   *)
(*   risk_pct, base risk   : 1e-7 units     (0.0025 -> 25000)              *)
(*   conf_mult             : 1e-4 units     (1.0 -> 10000)                 *)
(*   vol_mult              : hundredths     (0.6 -> 60)                    *)
(*   prices                : integer price points; the string "TBD" that   *)
(*                           the code uses for a missing level is TBD = -1 *)
(*   time                  : unix seconds                                  *)
(* A Factor Set is a Python dict: a function whose DOMAIN is the set of    *)
(* keys present, read with Get(f, key, default) like dict.get.             *)
(* A commentary is the sequence of the string pieces the code concatenates.*)
(***************************************************************************)
EXTENDS Integers, Sequences, FiniteSets, TLC

---------------------------------------------------------------------------
(* engine/scoring.py : thresholds *)

SETUP_SCORE_THRESHOLD == 65

(* the sniper threshold one point too low *)
EXECUTION_CONFIDENCE_MIN_Low == 80 - 10

EXECUTION_CONFIDENCE_MIN == 80

(* the floor set half a point too low *)
MIN_RR_Lowered == 20 - 5

MIN_RR == 20

(* engine/decision_layer.py : constants *)

COOLDOWN_SECS == 1800

DEFAULT_MIN_RR == 30

EXEC_GATE_CONFIDENCE == 60

DEFAULT_RISK_MULT == 10

(* the string sentinel "TBD" of a price level *)
TBD == -1

FireActions == {"BUY NOW", "SELL NOW"}

Directional == {"bullish", "bearish"}

---------------------------------------------------------------------------
(* dict helpers *)

Get(f, k, dflt) == IF k \in DOMAIN f THEN f[k] ELSE dflt

EmptyDict == [k \in {} |-> 0]

(* d.update(e): keys of e win *)
Update(d, e) == [k \in (DOMAIN d) \cup (DOMAIN e) |-> IF k \in DOMAIN e THEN e[k] ELSE d[k]]

(* string concatenation of pieces; an empty piece leaves no trace *)
Cat(pieces) == SelectSeq(pieces, LAMBDA s : s # "")

Max(a, b) == IF a >= b THEN a ELSE b

Min(a, b) == IF a <= b THEN a ELSE b

(* a clamp that forgets its upper bound *)
clamp_NoCeiling(x, lo, hi) == IF x < lo THEN lo ELSE x

clamp(x, lo, hi) == Max(lo, Min(hi, x))

Abs(x) == IF x < 0 THEN 0 - x ELSE x

(* Op(e) with e evaluated once: the value of a local variable of the code *)
Bind(e, Op(_)) == CHOOSE y \in { Op(x) : x \in {e} } : TRUE

---------------------------------------------------------------------------
(* engine/scoring.py : Decision dataclass; score, risk_pct, size and meta  *)
(* take their defaults when the constructor is called with 7 positionals.  *)

Decision(symbol, bias, mode, confidence, action, commentary, trade_plan) ==
    [ symbol     |-> symbol,
      bias       |-> bias,
      mode       |-> mode,
      confidence |-> confidence,
      action     |-> action,
      commentary |-> commentary,
      trade_plan |-> trade_plan,
      score      |-> 0,
      risk_pct   |-> 0,
      size       |-> [num |-> 0, den |-> 1],
      meta       |-> EmptyDict ]

(* the score table with the MSS weight and a clean-sniper weight as parameters *)
ScoreTableWith(factors, mss_weight, clean_weight) ==
    LET w(k, n) == IF Get(factors, k, FALSE) THEN n ELSE 0
        entry_confirmed_any == \/ Get(factors, "entry_confirmed_sniper", FALSE)
                               \/ Get(factors, "entry_confirmed_continuation", FALSE)
                               \/ Get(factors, "entry_confirmed", FALSE)
        entry_score == IF entry_confirmed_any THEN 10 ELSE 0
        total == w("po3_active", 20) + w("liquidity_sweep", 20) + w("agreement_reclaim", 10)
                 + w("mss_shift", mss_weight) + entry_score + w("session_alignment", 10)
                 + w("htf_alignment", 10) + w("distribution_active", 5)
                 + w("sniper_clean", clean_weight)
    IN  [ po3_score          |-> w("po3_active", 20),
          sweep_score        |-> w("liquidity_sweep", 20),
          agreement_score    |-> w("agreement_reclaim", 10),
          mss_score          |-> w("mss_shift", mss_weight),
          entry_score        |-> entry_score,
          session_score      |-> w("session_alignment", 10),
          htf_score          |-> w("htf_alignment", 10),
          distribution_bonus |-> w("distribution_active", 5),
          bias_score         |-> 0,
          structure_score    |-> 0,
          liquidity_score    |-> 0,
          rr_score           |-> 0,
          volatility_penalty |-> 0,
          news_penalty       |-> 0,
          htf_penalty        |-> 0,
          regime_penalty     |-> 0,
          total_score        |-> clamp(total, 0, 100) ]

(* the MSS signal weighted +1 instead of +2 *)
build_score_breakdown_MssOne(factors) == ScoreTableWith(factors, 10, 0)

(* the clean-sniper bonus added inside the scorer *)
build_score_breakdown_WithClean(factors) == ScoreTableWith(factors, 20, 10)

(* engine/scoring.py : build_score_breakdown *)
build_score_breakdown(factors) ==
    LET po3_active          == Get(factors, "po3_active", FALSE)
        liquidity_sweep     == Get(factors, "liquidity_sweep", FALSE)
        agreement_reclaim   == Get(factors, "agreement_reclaim", FALSE)
        mss_shift           == Get(factors, "mss_shift", FALSE)
        session_alignment   == Get(factors, "session_alignment", FALSE)
        htf_alignment       == Get(factors, "htf_alignment", FALSE)
        distribution_active == Get(factors, "distribution_active", FALSE)
        entry_confirmed_any == \/ Get(factors, "entry_confirmed_sniper", FALSE)
                               \/ Get(factors, "entry_confirmed_continuation", FALSE)
                               \/ Get(factors, "entry_confirmed", FALSE)
        po3_score          == IF po3_active THEN 20 ELSE 0
        sweep_score        == IF liquidity_sweep THEN 20 ELSE 0
        agreement_score    == IF agreement_reclaim THEN 10 ELSE 0
        mss_score          == IF mss_shift THEN 20 ELSE 0
        entry_score        == IF entry_confirmed_any THEN 10 ELSE 0
        session_score      == IF session_alignment THEN 10 ELSE 0
        htf_score          == IF htf_alignment THEN 10 ELSE 0
        distribution_bonus == IF distribution_active THEN 5 ELSE 0
        total == po3_score + sweep_score + agreement_score + mss_score
                 + entry_score + session_score + htf_score + distribution_bonus
    IN  [ po3_score          |-> po3_score,
          sweep_score        |-> sweep_score,
          agreement_score    |-> agreement_score,
          mss_score          |-> mss_score,
          entry_score        |-> entry_score,
          session_score      |-> session_score,
          htf_score          |-> htf_score,
          distribution_bonus |-> distribution_bonus,
          bias_score         |-> 0,
          structure_score    |-> 0,
          liquidity_score    |-> 0,
          rr_score           |-> 0,
          volatility_penalty |-> 0,
          news_penalty       |-> 0,
          htf_penalty        |-> 0,
          regime_penalty     |-> 0,
          total_score        |-> clamp(total, 0, 100) ]

(* the bias decide_from_factors works with: po3_bias, else bias, else neutral *)
EffectiveBias(factors) == Get(factors, "po3_bias", Get(factors, "bias", "neutral"))

(* the sniper conjunction without its directional-bias conjunct *)
SniperFires_AnyBias(factors) ==
    LET rr                == Get(factors, "rr", 0)
        po3_phase         == Get(factors, "po3_phase", "ACCUMULATION")
        confidence        == build_score_breakdown(factors).total_score
        sniper_bonus      == IF Get(factors, "sniper_clean", FALSE) THEN 10 ELSE 0
        sniper_confidence == clamp(confidence + sniper_bonus, 0, 100)
        sniper_ready ==
            /\ po3_phase \in {"ACCUMULATION", "MANIPULATION"}
            /\ Get(factors, "accumulation_detected", FALSE)
            /\ Get(factors, "liquidity_sweep", FALSE)
            /\ Get(factors, "agreement_reclaim", FALSE)
            /\ Get(factors, "mss_shift", FALSE)
            /\ Get(factors, "entry_confirmed_sniper", Get(factors, "entry_confirmed", FALSE))
            /\ Get(factors, "session_valid_sniper", TRUE)
            /\ rr >= MIN_RR
    IN  sniper_ready /\ sniper_confidence >= EXECUTION_CONFIDENCE_MIN

(* the sniper conjunction with news_block as a hard stop *)
SniperFires_NewsBlocked(factors) ==
    LET rr                == Get(factors, "rr", 0)
        po3_phase         == Get(factors, "po3_phase", "ACCUMULATION")
        confidence        == build_score_breakdown(factors).total_score
        sniper_bonus      == IF Get(factors, "sniper_clean", FALSE) THEN 10 ELSE 0
        sniper_confidence == clamp(confidence + sniper_bonus, 0, 100)
        sniper_ready ==
            /\ po3_phase \in {"ACCUMULATION", "MANIPULATION"}
            /\ Get(factors, "accumulation_detected", FALSE)
            /\ Get(factors, "liquidity_sweep", FALSE)
            /\ Get(factors, "agreement_reclaim", FALSE)
            /\ Get(factors, "mss_shift", FALSE)
            /\ Get(factors, "entry_confirmed_sniper", Get(factors, "entry_confirmed", FALSE))
            /\ Get(factors, "session_valid_sniper", TRUE)
            /\ rr >= MIN_RR
            /\ EffectiveBias(factors) \in Directional
            /\ ~Get(factors, "news_block", FALSE)
    IN  sniper_ready /\ sniper_confidence >= EXECUTION_CONFIDENCE_MIN

(* engine/scoring.py : the sniper readiness conjunction and its threshold *)
SniperFires(factors) ==
    LET rr                == Get(factors, "rr", 0)
        po3_phase         == Get(factors, "po3_phase", "ACCUMULATION")
        confidence        == build_score_breakdown(factors).total_score
        sniper_bonus      == IF Get(factors, "sniper_clean", FALSE) THEN 10 ELSE 0
        sniper_confidence == clamp(confidence + sniper_bonus, 0, 100)
        sniper_ready ==
            /\ po3_phase \in {"ACCUMULATION", "MANIPULATION"}
            /\ Get(factors, "accumulation_detected", FALSE)
            /\ Get(factors, "liquidity_sweep", FALSE)
            /\ Get(factors, "agreement_reclaim", FALSE)
            /\ Get(factors, "mss_shift", FALSE)
            /\ Get(factors, "entry_confirmed_sniper", Get(factors, "entry_confirmed", FALSE))
            /\ Get(factors, "session_valid_sniper", TRUE)
            /\ rr >= MIN_RR
            /\ EffectiveBias(factors) \in Directional
    IN  sniper_ready /\ sniper_confidence >= EXECUTION_CONFIDENCE_MIN

(* the continuation threshold compared with the bonus-carrying score *)
ContinuationFires_WithBonus(factors) ==
    LET rr                == Get(factors, "rr", 0)
        po3_phase         == Get(factors, "po3_phase", "ACCUMULATION")
        confidence        == build_score_breakdown(factors).total_score
        sniper_bonus      == IF Get(factors, "sniper_clean", FALSE) THEN 10 ELSE 0
        sniper_confidence == clamp(confidence + sniper_bonus, 0, 100)
        structure_ok      == Get(factors, "structure_ok", FALSE)
        continuation_ready ==
            /\ (po3_phase = "DISTRIBUTION") /\ Get(factors, "distribution_active", FALSE)
            /\ Get(factors, "structure_ok_continuation", structure_ok)
            /\ Get(factors, "entry_confirmed_continuation", Get(factors, "entry_confirmed", FALSE))
            /\ Get(factors, "session_valid_continuation", TRUE)
            /\ rr >= MIN_RR
            /\ EffectiveBias(factors) \in Directional
    IN  continuation_ready /\ sniper_confidence >= SETUP_SCORE_THRESHOLD

(* engine/scoring.py : the continuation readiness conjunction and threshold *)
ContinuationFires(factors) ==
    LET rr                == Get(factors, "rr", 0)
        po3_phase         == Get(factors, "po3_phase", "ACCUMULATION")
        confidence        == build_score_breakdown(factors).total_score
        structure_ok      == Get(factors, "structure_ok", FALSE)
        continuation_phase_ok ==
            (po3_phase = "DISTRIBUTION") /\ Get(factors, "distribution_active", FALSE)
        continuation_ready ==
            /\ continuation_phase_ok
            /\ Get(factors, "structure_ok_continuation", structure_ok)
            /\ Get(factors, "entry_confirmed_continuation", Get(factors, "entry_confirmed", FALSE))
            /\ Get(factors, "session_valid_continuation", TRUE)
            /\ rr >= MIN_RR
            /\ EffectiveBias(factors) \in Directional
    IN  continuation_ready /\ confidence >= SETUP_SCORE_THRESHOLD

(* the cascade without its leading trend-developing branch *)
StandbyCommentary_SweepFirst(factors) ==
    LET po3_phase       == Get(factors, "po3_phase", "ACCUMULATION")
        liquidity_sweep == Get(factors, "liquidity_sweep", FALSE)
        mss_shift       == Get(factors, "mss_shift", FALSE)
        entry_confirmed_sniper ==
            Get(factors, "entry_confirmed_sniper", Get(factors, "entry_confirmed", FALSE))
        entry_confirmed_cont ==
            Get(factors, "entry_confirmed_continuation", Get(factors, "entry_confirmed", FALSE))
        continuation_phase_ok ==
            (po3_phase = "DISTRIBUTION") /\ Get(factors, "distribution_active", FALSE)
    IN  IF ~liquidity_sweep
          THEN "Waiting for valid liquidity sweep (Phase 2 manipulation)."
        ELSE IF liquidity_sweep /\ ~mss_shift
          THEN "Sweep detected; waiting for 15m MSS and displacement confirmation."
        ELSE IF (liquidity_sweep /\ mss_shift) /\ ~entry_confirmed_sniper
          THEN "PO3 structure present; waiting for SNIPER entry confirmation (wick->expansion OR CISD)."
        ELSE IF continuation_phase_ok /\ ~entry_confirmed_cont
          THEN "Distribution active; waiting for CONTINUATION entry confirmation (wick->expansion)."
        ELSE "No clean PO3 narrative yet (no forced trades)."

(* engine/scoring.py : the standby commentary cascade *)
StandbyCommentary(factors) ==
    LET po3_phase         == Get(factors, "po3_phase", "ACCUMULATION")
        liquidity_sweep   == Get(factors, "liquidity_sweep", FALSE)
        mss_shift         == Get(factors, "mss_shift", FALSE)
        structure_ok      == Get(factors, "structure_ok", FALSE)
        structure_ok_cont == Get(factors, "structure_ok_continuation", structure_ok)
        entry_confirmed_sniper ==
            Get(factors, "entry_confirmed_sniper", Get(factors, "entry_confirmed", FALSE))
        entry_confirmed_cont ==
            Get(factors, "entry_confirmed_continuation", Get(factors, "entry_confirmed", FALSE))
        continuation_phase_ok ==
            (po3_phase = "DISTRIBUTION") /\ Get(factors, "distribution_active", FALSE)
    IN  IF po3_phase = "ACCUMULATION" /\ structure_ok_cont
          THEN "Trend developing; waiting for MSS/confirmation (not forcing sweep)."
        ELSE IF ~liquidity_sweep
          THEN "Waiting for valid liquidity sweep (Phase 2 manipulation)."
        ELSE IF liquidity_sweep /\ ~mss_shift
          THEN "Sweep detected; waiting for 15m MSS and displacement confirmation."
        ELSE IF (liquidity_sweep /\ mss_shift) /\ ~entry_confirmed_sniper
          THEN "PO3 structure present; waiting for SNIPER entry confirmation (wick->expansion OR CISD)."
        ELSE IF continuation_phase_ok /\ ~entry_confirmed_cont
          THEN "Distribution active; waiting for CONTINUATION entry confirmation (wick->expansion)."
        ELSE "No clean PO3 narrative yet (no forced trades)."

(* engine/scoring.py : the trade plan a fired setup carries *)
FiredTradePlan(factors) ==
    [ entry |-> Get(factors, "entry", TBD),
      stop  |-> Get(factors, "stop", TBD),
      tp1   |-> Get(factors, "tp1", TBD),
      tp2   |-> Get(factors, "tp2", TBD),
      rr    |-> Get(factors, "rr", 0) ]

(* engine/scoring.py : decide_from_factors *)
decide_from_factors(symbol, factors) ==
    LET po3_bias    == EffectiveBias(factors)
        rr          == Get(factors, "rr", 0)
        news_block  == Get(factors, "news_block", FALSE)
        news_note   == IF news_block THEN " News risk: high-impact events nearby." ELSE ""
        po3_phase   == Get(factors, "po3_phase", "ACCUMULATION")
        htf_alignment == Get(factors, "htf_alignment", FALSE)
        structure_ok  == Get(factors, "structure_ok", FALSE)
        structure_ok_cont == Get(factors, "structure_ok_continuation", structure_ok)
        entry_type_sniper ==
            Get(factors, "entry_confirm_type_sniper", Get(factors, "entry_confirm_type", "none"))
        entry_type_cont ==
            Get(factors, "entry_confirm_type_continuation", Get(factors, "entry_confirm_type", "none"))
        score_breakdown == build_score_breakdown(factors)
        confidence      == score_breakdown.total_score
        sniper_clean    == Get(factors, "sniper_clean", FALSE)
        sniper_bonus    == IF sniper_clean THEN 10 ELSE 0
        sniper_confidence == clamp(confidence + sniper_bonus, 0, 100)
        base_meta ==
            [ po3_phase  |-> po3_phase,
              setup_type |-> "NONE",
              model      |-> "PO3_SNIPER_FIRST",
              news_flag  |-> news_block,
              htf_alignment |-> htf_alignment,
              structure_ok_continuation |-> structure_ok_cont,
              entry_confirm_type_sniper |-> entry_type_sniper,
              entry_confirm_type_continuation |-> entry_type_cont,
              cisd_confirmed     |-> Get(factors, "cisd_confirmed", FALSE),
              distribution_bonus |-> score_breakdown.distribution_bonus,
              sniper_clean       |-> sniper_clean,
              sniper_bonus       |-> sniper_bonus,
              sniper_confidence  |-> sniper_confidence ]
        fire_action == IF po3_bias = "bullish" THEN "BUY NOW" ELSE "SELL NOW"
        mk(mode, action, commentary, trade_plan, meta) ==
            [ Decision(symbol, po3_bias, mode, confidence, action, commentary, trade_plan)
                EXCEPT !.score = confidence, !.meta = meta ]
    IN  IF rr < MIN_RR THEN
            mk("standby", "WAIT",
               Cat(<<"RR below minimum 2.0 requirement.", news_note>>),
               EmptyDict, base_meta)
        ELSE IF SniperFires(factors) THEN
            mk("sniper", fire_action,
               Cat(<<"PO3 SNIPER (", entry_type_sniper,
                     "): accumulation -> sweep -> agreement reclaim -> MSS.",
                     IF sniper_bonus > 0 THEN " + clean bonus" ELSE "", news_note>>),
               FiredTradePlan(factors),
               Update(base_meta, [setup_type |-> "SNIPER", entry_confirm_type |-> entry_type_sniper]))
        ELSE IF ContinuationFires(factors) THEN
            mk("continuation", fire_action,
               Cat(<<"CONTINUATION (", entry_type_cont,
                     "): distribution active + structure OK",
                     IF htf_alignment THEN " (HTF aligned)" ELSE " (HTF not aligned)",
                     ".", news_note>>),
               FiredTradePlan(factors),
               Update(base_meta, [setup_type |-> "CONTINUATION", entry_confirm_type |-> entry_type_cont]))
        ELSE
            mk("standby", "WATCH",
               Cat(<<StandbyCommentary(factors), news_note>>),
               EmptyDict, base_meta)

---------------------------------------------------------------------------
(* engine/risk.py *)

DEFAULT_EQUITY == 10000

RISK_PCT_CAP == 100000

RECURSIVE Gcd(_, _)
Gcd(a, b) == IF b = 0 THEN a ELSE Gcd(b, a % b)

(* an exact non-negative quotient num/den in lowest terms; 0.0 is 0/1 *)
Frac(num, den) ==
    IF num = 0 THEN [num |-> 0, den |-> 1]
    ELSE LET g == Gcd(num, den) IN [num |-> num \div g, den |-> den \div g]

(* round(num/den) to the nearest integer, ties to even (Python round) *)
RoundHalfEven(num, den) ==
    LET q == num \div den
        r == num % den
    IN  IF 2 * r < den THEN q
        ELSE IF 2 * r > den THEN q + 1
        ELSE IF q % 2 = 0 THEN q ELSE q + 1

(* engine/risk.py : _get_equity; AssetProfile has none of the equity attributes *)
_get_equity(default_equity) == default_equity

(* engine/risk.py : _mode_base_risk_pct, in 1e-7 units *)
_mode_base_risk_pct(mode) ==
    IF mode = "standby" THEN 0
    ELSE IF mode = "conservative" THEN 25000
    ELSE IF mode = "balanced" THEN 50000
    ELSE IF mode = "aggressive" THEN 75000
    ELSE 25000

(* engine/risk.py : _volatility_mult, in hundredths *)
_volatility_mult(vol_risk) ==
    IF vol_risk = "high" THEN 60
    ELSE IF vol_risk = "extreme" THEN 25
    ELSE 100

(* engine/risk.py : the size tier apply_sizing reports in meta *)
SizeTier(confidence, factors) ==
    LET regime       == Get(factors, "regime", "trend")
        vol          == Get(factors, "volatility_risk", "normal")
        liquidity_ok == Get(factors, "liquidity_ok", FALSE)
    IN  IF regime \in {"no_data", "chop", "extreme_vol"} \/ vol = "extreme" THEN "OFF"
        ELSE IF vol = "high" THEN "SMALL"
        ELSE IF confidence >= 90 /\ liquidity_ok /\ regime = "trend" THEN "LARGE"
        ELSE IF confidence >= 75 THEN "MEDIUM"
        ELSE "SMALL"

(* float values that are not finite numbers: float("inf") and float("nan") *)
INF == -2

NAN == -3

NotFinite == {INF, NAN}

(* a float NaN as a quotient *)
NaNFrac == [num |-> 0, den |-> 0]

(* engine/risk.py : abs(entry_f - stop_f) in float arithmetic *)
StopDist(entry_f, stop_f) ==
    IF NAN \in {entry_f, stop_f} THEN NAN
    ELSE IF entry_f = INF /\ stop_f = INF THEN NAN
    ELSE IF INF \in {entry_f, stop_f} THEN INF
    ELSE Abs(entry_f - stop_f)

(* the position risked per price point but never divided by the distance *)
SizeOf_NoStop(risk_amt, stop_dist) ==
    IF stop_dist = NAN THEN NaNFrac
    ELSE IF stop_dist = INF THEN [num |-> 0, den |-> 1]
    ELSE Frac(risk_amt \div 10000, 1000)

(* engine/risk.py : size = risk_amt / stop_dist, risk_amt in 1e-7 currency *)
(* units (equity is a multiple of 10^4); x / inf is 0.0, x / nan is nan    *)
SizeOf(risk_amt, stop_dist) ==
    IF stop_dist = NAN THEN NaNFrac
    ELSE IF stop_dist = INF THEN [num |-> 0, den |-> 1]
    ELSE Frac(risk_amt \div 10000, stop_dist * 1000)

(* engine/risk.py : apply_sizing.  float(None) and float("TBD") raise, which *)
(* the code catches to return the decision untouched; float("inf") and       *)
(* float("nan") do not raise, and neither of them is <= 0.                   *)
apply_sizing(decision, factors) ==
    LET entry == Get(factors, "entry", TBD)
        stop  == Get(factors, "stop", TBD)
    IN  IF entry = TBD \/ stop = TBD THEN decision
        ELSE LET stop_dist == StopDist(entry, stop) IN
        IF stop_dist \notin NotFinite /\ stop_dist <= 0 THEN decision
        ELSE
        LET equity     == _get_equity(DEFAULT_EQUITY)
            confidence == decision.confidence
            base_risk  == _mode_base_risk_pct(decision.mode)
            (* clamp((confidence - 5.0) / 5.0, 0, 1) = conf_span / 50 *)
            conf_span  == clamp(confidence - 50, 0, 50)
            vol_mult   == _volatility_mult(Get(factors, "volatility_risk", "normal"))
            risk_pct   == clamp((base_risk * conf_span * vol_mult) \div 5000, 0, RISK_PCT_CAP)
            (* equity * risk_pct, in 1e-7 currency units *)
            risk_amt   == equity * risk_pct
            size       == SizeOf(risk_amt, stop_dist)
            tp == Update(decision.trade_plan,
                    [ risk_pct    |-> RoundHalfEven(risk_pct, 10),
                      risk_amount |-> RoundHalfEven(risk_amt, 100000),
                      stop_dist   |-> stop_dist,
                      size        |-> IF stop_dist = NAN THEN NAN
                                      ELSE IF stop_dist = INF THEN 0
                                      ELSE RoundHalfEven(risk_amt \div 10, stop_dist),
                      equity_used |-> equity ])
            meta == [ equity        |-> equity,
                      base_risk_pct |-> base_risk,
                      conf_mult     |-> conf_span * 200,
                      vol_mult      |-> vol_mult,
                      stop_dist     |-> stop_dist,
                      size_tier     |-> SizeTier(confidence, factors) ]
        IN  [decision EXCEPT !.risk_pct = risk_pct, !.size = size,
                             !.meta = meta, !.trade_plan = tp]

---------------------------------------------------------------------------
(* engine/decision_layer.py : run_decisions, the body of the loop for one  *)
(* profile up to (not including) the cooldown step.  `stage` tells which   *)
(* gate ended the iteration: "regime" and "rr" `continue` past the         *)
(* cooldown step, "rules" goes on to it.                                   *)

Rebuild(d, sym, action, commentary) ==
    Decision(sym, d.bias, d.mode, d.confidence, action, commentary, EmptyDict)

PromotedAction(d, factors) ==
    LET bull_break == Get(factors, "bull_break", FALSE)
        bear_break == Get(factors, "bear_break", FALSE)
        bias       == d.bias
        risk_mult  == Get(factors, "risk_mult", DEFAULT_RISK_MULT)
        by_breakout ==
            IF bias = "bullish" /\ bull_break THEN "BUY NOW"
            ELSE IF bias = "bearish" /\ bear_break THEN "SELL NOW"
            ELSE IF d.action \in FireActions THEN "WATCH"
            ELSE d.action
    IN  IF risk_mult <= 0 /\ by_breakout \in FireActions THEN "WAIT" ELSE by_breakout

(* the loop body without its regime, RR, breakout and execution gates *)
RulesDecision_Ungated(g, sym, factors) ==
    LET Gates(d0) == [ d |-> d0, stage |-> "rules", sized |-> d0 ]
    IN  Bind(apply_sizing(g, factors), Gates)

(* a regime gate that stops on chop only *)
RegimeStop_ChopOnly(structure_ok, vol_risk) == ~structure_ok

(* engine/decision_layer.py : the condition of the regime gate *)
RegimeStop(structure_ok, vol_risk) == (~structure_ok) \/ (vol_risk = "extreme")

RulesDecision(g, sym, factors) ==
    LET structure_ok == Get(factors, "structure_ok", FALSE)
        vol_risk     == Get(factors, "volatility_risk", "normal")
        rr           == Get(factors, "rr", 0)
        min_rr       == Get(factors, "min_rr", DEFAULT_MIN_RR)
        Gates(d0) ==
            IF RegimeStop(structure_ok, vol_risk) THEN
                [ d     |-> Rebuild(d0, sym, "WAIT", <<"Regime gate: chop or extreme volatility">>),
                  stage |-> "regime",
                  sized |-> d0 ]
            ELSE IF rr < min_rr THEN
                [ d     |-> IF d0.action \in FireActions
                              THEN Rebuild(d0, sym, "WATCH",
                                           <<"RR gate: rr=", ToString(rr), " < min_rr=", ToString(min_rr)>>)
                              ELSE d0,
                  stage |-> "rr",
                  sized |-> d0 ]
            ELSE
                LET WriteBack(proposed_action) ==
                        IF proposed_action # d0.action
                          THEN Rebuild(d0, sym, proposed_action, <<"Breakout/regime/RR rules applied">>)
                          ELSE d0
                    ExecutionGate(d1) ==
                        IF d1.action \in FireActions /\ d1.confidence < EXEC_GATE_CONFIDENCE
                          THEN Rebuild(d1, sym, "WAIT", <<"Confidence gate: below execution threshold">>)
                          ELSE d1
                IN  [ d     |-> Bind(Bind(PromotedAction(d0, factors), WriteBack), ExecutionGate),
                      stage |-> "rules",
                      sized |-> d0 ]
    IN  Bind(apply_sizing(g, factors), Gates)

(* engine/decision_layer.py : step 6, the cooldown throttle.  lf and lts   *)
(* are the dicts _last_fired and _last_fired_ts.                           *)
(* the window compared in minutes against a clock in seconds *)
InCooldown_Minutes(d, sym, lf, lts, t) ==
    LET last_action == Get(lf, sym, "None")
        last_ts     == Get(lts, sym, 0)
        in_window   == (t - last_ts) < (COOLDOWN_SECS \div 60)
    IN  in_window /\ last_action = d.action

(* the window tested without comparing the action *)
InCooldown_AnyAction(d, sym, lf, lts, t) ==
    LET last_ts   == Get(lts, sym, 0)
        in_window == (t - last_ts) < COOLDOWN_SECS
    IN  in_window /\ sym \in DOMAIN lf

(* the window tested against the records of all symbols *)
InCooldown_AnySymbol(d, sym, lf, lts, t) ==
    \E s \in DOMAIN lf :
        /\ (t - Get(lts, s, 0)) < COOLDOWN_SECS
        /\ lf[s] = d.action

InCooldown(d, sym, lf, lts, t) ==
    LET last_action == Get(lf, sym, "None")
        last_ts     == Get(lts, sym, 0)
        in_window   == (t - last_ts) < COOLDOWN_SECS
    IN  in_window /\ last_action = d.action

(* a suppressed repeat that restarts the window *)
Throttle_Refreshing(d, sym, lf, lts, t) ==
    IF d.action \in FireActions THEN
        IF InCooldown(d, sym, lf, lts, t) THEN
            [ d   |-> Rebuild(d, sym, "WAIT", <<"Cooldown gate: already fired recently">>),
              lf  |-> lf,
              lts |-> Update(lts, [k \in {sym} |-> t]) ]
        ELSE
            [ d   |-> d,
              lf  |-> Update(lf, [k \in {sym} |-> d.action]),
              lts |-> Update(lts, [k \in {sym} |-> t]) ]
    ELSE [ d |-> d, lf |-> lf, lts |-> lts ]

Throttle(d, sym, lf, lts, t) ==
    IF d.action \in FireActions THEN
        IF InCooldown(d, sym, lf, lts, t) THEN
            [ d   |-> Rebuild(d, sym, "WAIT", <<"Cooldown gate: already fired recently">>),
              lf  |-> lf,
              lts |-> lts ]
        ELSE
            [ d   |-> d,
              lf  |-> Update(lf, [k \in {sym} |-> d.action]),
              lts |-> Update(lts, [k \in {sym} |-> t]) ]
    ELSE [ d |-> d, lf |-> lf, lts |-> lts ]

(* engine/decision_layer.py : the for loop over profiles, threading the    *)
(* cooldown dicts; acc collects decisions, the pre-cooldown decisions,     *)
(* the apply_sizing results and the decide_from_factors results in         *)
(* profile order.                                                          *)
RECURSIVE RunLoop(_, _, _, _, _, _, _)
RunLoop(profs, i, fbs, lf, lts, t, acc) ==
    IF i > Len(profs) THEN [ acc |-> acc, lf |-> lf, lts |-> lts ]
    ELSE
        LET sym     == profs[i]
            factors == Get(fbs, sym, EmptyDict)
            Cooldown(r) ==
                IF r.stage = "rules"
                  THEN Throttle(r.d, sym, lf, lts, t)
                  ELSE [ d |-> r.d, lf |-> lf, lts |-> lts ]
            Step(g) ==
                LET Rest(r) ==
                        LET Cont(th) ==
                                RunLoop(profs, i + 1, fbs, th.lf, th.lts, t,
                                        [ decisions |-> Append(acc.decisions, th.d),
                                          proposed  |-> Append(acc.proposed, r.d),
                                          sized     |-> Append(acc.sized, r.sized),
                                          gated     |-> Append(acc.gated, g) ])
                        IN  Bind(Cooldown(r), Cont)
                IN  Bind(RulesDecision(g, sym, factors), Rest)
        IN  Bind(decide_from_factors(sym, factors), Step)

run_decisions(profs, fbs, lf, lts, t) ==
    RunLoop(profs, 1, fbs, lf, lts, t,
            [ decisions |-> <<>>, proposed |-> <<>>, sized |-> <<>>, gated |-> <<>> ])

---------------------------------------------------------------------------
(* Factor Sets fed to the pipeline.  A core names the values of the keys   *)
(* build_snapshot writes (app.py, the factors_by_symbol[sym] literal);     *)
(* FactorsOf spells the dict out.  Callers of run_decisions may add the    *)
(* keys min_rr, bull_break, bear_break and risk_mult, which build_snapshot *)
(* never writes.                                                           *)

Biases == {"bullish", "bearish", "neutral"}

Phases == {"ACCUMULATION", "MANIPULATION", "DISTRIBUTION"}

(* price levels of a plan: entry 100 with the stop 10 points away *)
LevelsOf(po3_bias, numeric) ==
    IF ~numeric \/ po3_bias \notin Directional
      THEN [entry |-> IF numeric THEN 100 ELSE TBD, stop |-> TBD, tp1 |-> TBD, tp2 |-> TBD]
    ELSE IF po3_bias = "bullish"
      THEN [entry |-> 100, stop |-> 90, tp1 |-> 120, tp2 |-> 130]
    ELSE [entry |-> 100, stop |-> 110, tp1 |-> 80, tp2 |-> 70]

FactorsOf(c) ==
    Update(
    [ bias                  |-> c.bias,
      po3_bias              |-> c.po3_bias,
      po3_phase             |-> c.phase,
      po3_active            |-> c.po3a,
      accumulation_detected |-> c.acc,
      liquidity_sweep       |-> c.sweep,
      agreement_reclaim     |-> c.agree,
      mss_shift             |-> c.mss,
      entry_confirmed       |-> c.ecc,
      entry_confirm_type    |-> IF c.ecc THEN "reversal_expansion" ELSE "none",
      entry_confirmed_sniper      |-> c.ecs,
      entry_confirm_type_sniper   |-> IF c.ecs THEN (IF c.ecc THEN "reversal_expansion" ELSE "cisd") ELSE "none",
      entry_confirmed_continuation    |-> c.ecc,
      entry_confirm_type_continuation |-> IF c.ecc THEN "reversal_expansion" ELSE "none",
      cisd_confirmed        |-> c.ecs /\ ~c.ecc,
      sniper_clean          |-> c.clean,
      session_alignment     |-> c.sess,
      session_valid_sniper  |-> c.svs,
      session_valid_continuation |-> c.svc,
      htf_alignment         |-> c.htf,
      distribution_active   |-> c.dist,
      structure_ok          |-> c.sok,
      structure_ok_continuation |-> c.sokc,
      liquidity_ok          |-> c.liq,
      rr                    |-> c.rr,
      news_block            |-> c.news,
      volatility_risk       |-> c.vol ],
    LevelsOf(c.po3_bias, c.numeric))

Without(f, keys) == [k \in (DOMAIN f) \ keys |-> f[k]]

(* Factor Sets of the shape build_snapshot writes, every gate input free *)
GateCores ==
    [ bias: {"neutral"}, po3_bias: Biases, phase: Phases, rr: {15, 20},
      acc: BOOLEAN, sweep: BOOLEAN, agree: BOOLEAN, mss: BOOLEAN,
      ecs: BOOLEAN, ecc: BOOLEAN, dist: BOOLEAN, sokc: BOOLEAN, clean: BOOLEAN,
      po3a: BOOLEAN, sess: BOOLEAN, htf: BOOLEAN,
      svs: BOOLEAN, svc: BOOLEAN, sok: {TRUE}, liq: {FALSE}, news: {FALSE},
      vol: {"normal"}, numeric: {TRUE} ]

(* Factor Sets for apply_sizing: every mode, confidences from 1.0 to 10.0, *)
(* every volatility class, with and without numeric levels                 *)
SizingCores ==
    [ bias: {"neutral"}, po3_bias: Biases, phase: Phases, rr: {30},
      acc: {TRUE}, sweep: BOOLEAN, agree: {TRUE}, mss: BOOLEAN,
      ecs: {TRUE}, ecc: {TRUE}, dist: BOOLEAN, sokc: {TRUE}, clean: BOOLEAN,
      po3a: BOOLEAN, sess: BOOLEAN, htf: BOOLEAN,
      svs: {TRUE}, svc: {TRUE}, sok: {TRUE}, liq: BOOLEAN, news: {FALSE},
      vol: {"normal", "high", "extreme"}, numeric: BOOLEAN ]

(* levels written over those of LevelsOf: a stop on the entry, one point   *)
(* away, and floats that are not finite; and a regime named by the caller  *)
LevelExtras ==
    { EmptyDict,
      [stop |-> 100],
      [stop |-> 99],
      [stop |-> INF],
      [entry |-> NAN],
      [entry |-> INF, stop |-> INF],
      [regime |-> "chop"] }

(* the same Factor Set with the po3_bias key missing: bias carries the lean *)
BiasOnly(f) == Without([f EXCEPT !.bias = f.po3_bias], {"po3_bias"})

(* keys a caller of run_decisions may add *)
CallerExtras ==
    { EmptyDict }
    \cup { [bull_break |-> b[1], bear_break |-> b[2]] :
             b \in {<<TRUE, TRUE>>, <<TRUE, FALSE>>, <<FALSE, TRUE>>} }
    \cup { [min_rr |-> 10] }
    \cup { [bull_break |-> TRUE, bear_break |-> TRUE, min_rr |-> 10] }
    \cup { [bull_break |-> TRUE, bear_break |-> TRUE, risk_mult |-> 0] }
    \cup { [bull_break |-> TRUE, bear_break |-> TRUE, min_rr |-> 10, risk_mult |-> 10] }

(* Factor Sets that drive every gate of run_decisions *)
RuleCores ==
    [ bias: {"neutral"}, po3_bias: Biases, phase: {"ACCUMULATION", "DISTRIBUTION"},
      rr: {15, 20, 30},
      acc: {TRUE}, sweep: BOOLEAN, agree: {TRUE}, mss: BOOLEAN,
      ecs: BOOLEAN, ecc: BOOLEAN, dist: {TRUE}, sokc: {TRUE}, clean: {TRUE},
      po3a: {TRUE}, sess: {TRUE}, htf: {TRUE},
      svs: {TRUE}, svc: {TRUE}, sok: BOOLEAN, liq: {FALSE}, news: {FALSE},
      vol: {"normal", "extreme"}, numeric: {TRUE} ]

RuleFactors ==
    { Update(g, x) : g \in { FactorsOf(c) : c \in RuleCores }
                           \cup { BiasOnly(FactorsOf(c)) : c \in RuleCores },
                     x \in CallerExtras }

(* the Factor Sets of the refresh cycles *)
CycleCores ==
    [ bias: {"neutral"}, po3_bias: Directional, phase: {"ACCUMULATION", "DISTRIBUTION"},
      rr: {30},
      acc: {TRUE}, sweep: {TRUE}, agree: {TRUE}, mss: {TRUE},
      ecs: BOOLEAN, ecc: {TRUE}, dist: {TRUE}, sokc: {TRUE}, clean: {TRUE},
      po3a: {TRUE}, sess: {TRUE}, htf: {TRUE},
      svs: {TRUE}, svc: {TRUE}, sok: BOOLEAN, liq: {FALSE}, news: {FALSE},
      vol: {"normal"}, numeric: {TRUE} ]

CycleFactors ==
    { Update(FactorsOf(c), x) :
        c \in CycleCores,
        x \in { EmptyDict, [bull_break |-> TRUE, bear_break |-> TRUE] } }
    \cup { EmptyDict }

---------------------------------------------------------------------------
(* app.py : build_snapshot, the Feature Extractor.                         *)
(* A bar series (the DataFrame fetch_ohlc returns) is a sequence of bars   *)
(* [open, high, low, close]; prices are integers, one unit being the last  *)
(* decimal _round_price keeps for the symbol, so _round_price is a         *)
(* rounding to the nearest integer.  Thresholds that the code writes as a  *)
(* float factor are compared by cross-multiplication.                      *)

Bar(o, h, l, c) == [open |-> o, high |-> h, low |-> l, close |-> c]

(* df.tail(n) *)
tail(df, n) == IF Len(df) <= n THEN df ELSE SubSeq(df, Len(df) - n + 1, Len(df))

(* df.iloc[-a:-b] *)
ISlice(df, a, b) == SubSeq(df, Max(1, Len(df) - a + 1), Len(df) - b)

SetMax(S) == CHOOSE x \in S : \A y \in S : y <= x

SetMin(S) == CHOOSE x \in S : \A y \in S : x <= y

HighMax(df) == SetMax({ df[i].high : i \in DOMAIN df })

LowMin(df) == SetMin({ df[i].low : i \in DOMAIN df })

RECURSIVE SumOver(_, _, _)
SumOver(f, a, b) == IF a > b THEN 0 ELSE f[a] + SumOver(f, a + 1, b)

(* the true range column of atr(): max(high-low, |high-prev close|,        *)
(* |low-prev close|); the first row has no previous close                  *)
TrueRange(df) ==
    [ i \in DOMAIN df |->
        IF i = 1 THEN df[i].high - df[i].low
        ELSE Max(df[i].high - df[i].low,
                 Max(Abs(df[i].high - df[i - 1].close), Abs(df[i].low - df[i - 1].close))) ]

ATR_N == 14

(* ATR_N times atr(df).iloc[-1]; 0 when the rolling window is not full     *)
(* (the NaN the code turns into 0.0)                                       *)
atr(df) ==
    IF Len(df) < ATR_N THEN 0
    ELSE SumOver(TrueRange(df), Len(df) - ATR_N + 1, Len(df))

session_valid_flags == [session_valid_sniper |-> TRUE, session_valid_continuation |-> TRUE]

current_4h_open(df_4h, fallback_price) ==
    IF Len(df_4h) > 0 THEN df_4h[Len(df_4h)].open ELSE fallback_price

(* None below 20 bars is the empty dict here: both are falsy *)
compute_liquidity_targets(df_15m) ==
    IF Len(df_15m) < 20 THEN EmptyDict
    ELSE LET daily_high  == HighMax(tail(df_15m, 96))
             daily_low   == LowMin(tail(df_15m, 96))
             weekly_high == IF Len(df_15m) >= 96 * 5 THEN HighMax(tail(df_15m, 96 * 5)) ELSE daily_high
             weekly_low  == IF Len(df_15m) >= 96 * 5 THEN LowMin(tail(df_15m, 96 * 5)) ELSE daily_low
         IN  [ daily_high |-> daily_high, daily_low |-> daily_low,
               weekly_high |-> weekly_high, weekly_low |-> weekly_low ]

(* last 4h range <= 0.85 * mean of the last 12 ranges *)
detect_accumulation(df_4h) ==
    IF Len(df_4h) < 20 THEN FALSE
    ELSE LET ranges == [ i \in DOMAIN df_4h |-> df_4h[i].high - df_4h[i].low ]
             sum12  == SumOver(ranges, Len(df_4h) - 11, Len(df_4h))
         IN  IF sum12 <= 0 THEN FALSE
             ELSE ranges[Len(df_4h)] * 12 * 100 <= sum12 * 85

(* a sweep counted when the last bar only touches the prior extreme *)
detect_sweep_Touch(df_15m) ==
    IF Len(df_15m) < 40 THEN [above |-> FALSE, below |-> FALSE]
    ELSE LET prior == ISlice(df_15m, 35, 1)
             last  == df_15m[Len(df_15m)]
         IN  [ above |-> (last.high >= HighMax(prior)) /\ (last.close <= HighMax(prior)),
               below |-> (last.low <= LowMin(prior)) /\ (last.close >= LowMin(prior)) ]

detect_sweep(df_15m) ==
    IF Len(df_15m) < 40 THEN [above |-> FALSE, below |-> FALSE]
    ELSE LET prior      == ISlice(df_15m, 35, 1)
             prior_high == HighMax(prior)
             prior_low  == LowMin(prior)
             last       == df_15m[Len(df_15m)]
         IN  [ above |-> (last.high > prior_high) /\ (last.close < prior_high),
               below |-> (last.low < prior_low) /\ (last.close > prior_low) ]

detect_mss(df_15m) ==
    IF Len(df_15m) < 30 THEN [bull |-> FALSE, bear |-> FALSE]
    ELSE LET swing      == ISlice(df_15m, 22, 1)
             last_close == df_15m[Len(df_15m)].close
         IN  [ bull |-> last_close > HighMax(swing),
               bear |-> last_close < LowMin(swing) ]

(* body >= thr * max(range, 1e-9), thr in hundredths *)
BodyOk(c, thr) ==
    LET body == Abs(c.close - c.open)
        rng  == c.high - c.low
    IN  IF rng <= 0 THEN body > 0 ELSE body * 100 >= thr * rng

detect_entry_confirmation(df_15m, po3_bias, body_ok_thr) ==
    IF Len(df_15m) < 5 \/ po3_bias \notin Directional
      THEN [ok |-> FALSE, type |-> "none"]
    ELSE
      LET c2 == df_15m[Len(df_15m) - 1]
          c3 == df_15m[Len(df_15m)]
          c2_rng   == c2.high - c2.low
          c2_wicks == (c2.high - Max(c2.open, c2.close)) + (Min(c2.open, c2.close) - c2.low)
          hard_break == IF po3_bias = "bullish" THEN c3.high > c2.high ELSE c3.low < c2.low
          soft_break == IF po3_bias = "bullish" THEN 2 * c3.close > c2.high + c2.low
                        ELSE 2 * c3.close < c2.high + c2.low
          expands   == BodyOk(c3, body_ok_thr) /\ (hard_break \/ soft_break)
          soft_used == soft_break /\ ~hard_break
          base == IF (IF c2_rng <= 0 THEN c2_wicks <= 0 ELSE c2_wicks * 100 <= 55 * c2_rng)
                    THEN "reversal_expansion"
                  ELSE IF (IF c2_rng <= 0 THEN c2_wicks > 0 ELSE c2_wicks * 100 >= 70 * c2_rng)
                    THEN "continuation_expansion"
                  ELSE "expansion"
      IN  IF ~expands THEN [ok |-> FALSE, type |-> "none"]
          ELSE IF soft_used THEN [ok |-> TRUE, type |-> base \o "_soft"]
          ELSE [ok |-> TRUE, type |-> base]

detect_cisd_protected_swing(df_15m, po3_bias, body_ok_thr) ==
    IF Len(df_15m) < 10 \/ po3_bias \notin Directional
      THEN [ok |-> FALSE, type |-> "none"]
    ELSE
      LET c2 == df_15m[Len(df_15m) - 1]
          c3 == df_15m[Len(df_15m)]
          window     == ISlice(df_15m, 12, 2)
          prior_low  == LowMin(window)
          prior_high == HighMax(window)
          protected  == IF po3_bias = "bullish" THEN c2.low > prior_low ELSE c2.high < prior_high
          hard_break == IF po3_bias = "bullish" THEN c3.close > c2.high ELSE c3.close < c2.low
          soft_break == IF po3_bias = "bullish" THEN c3.high > c2.high ELSE c3.low < c2.low
          breaks     == BodyOk(c3, body_ok_thr) /\ (hard_break \/ soft_break)
      IN  IF protected /\ breaks
            THEN [ok |-> TRUE,
                  type |-> IF soft_break /\ ~hard_break THEN "cisd_protected_swing_soft"
                           ELSE "cisd_protected_swing"]
          ELSE [ok |-> FALSE, type |-> "none"]

price_action_bias(df_tf) ==
    IF Len(df_tf) < 50 THEN "neutral"
    ELSE LET recent == tail(df_tf, 24)
             prev   == ISlice(df_tf, 48, 24)
             c0     == recent[1].close
             c1     == recent[Len(recent)].close
             up == (HighMax(recent) > HighMax(prev)) /\ (LowMin(recent) > LowMin(prev)) /\ (c1 > c0)
             dn == (HighMax(recent) < HighMax(prev)) /\ (LowMin(recent) < LowMin(prev)) /\ (c1 < c0)
         IN  IF up THEN "bullish" ELSE IF dn THEN "bearish" ELSE "neutral"

structure_ok_continuation(df_15m, po3_bias) ==
    IF Len(df_15m) < 60 THEN FALSE
    ELSE LET recent == tail(df_15m, 24)
             prev   == ISlice(df_15m, 48, 24)
             rng_       == HighMax(recent) - LowMin(recent)
             last_close == df_15m[Len(df_15m)].close
         IN  IF last_close <= 0 THEN FALSE
             ELSE IF rng_ * 10000 < last_close * 6 THEN FALSE
             ELSE IF po3_bias = "bullish"
               THEN (HighMax(recent) > HighMax(prev)) \/ (recent[Len(recent)].close > recent[1].close)
             ELSE IF po3_bias = "bearish"
               THEN (LowMin(recent) < LowMin(prev)) \/ (recent[Len(recent)].close < recent[1].close)
             ELSE FALSE

MIN_BARS == 60

NeutralFactorsWith(news_block, structure_ok, rr) ==
    [ bias                  |-> "neutral",
      po3_bias              |-> "neutral",
      po3_phase             |-> "ACCUMULATION",
      po3_active            |-> FALSE,
      accumulation_detected |-> FALSE,
      liquidity_sweep       |-> FALSE,
      agreement_reclaim     |-> FALSE,
      mss_shift             |-> FALSE,
      entry_confirmed       |-> FALSE,
      entry_confirm_type    |-> "none",
      entry_confirmed_sniper      |-> FALSE,
      entry_confirm_type_sniper   |-> "none",
      entry_confirmed_continuation    |-> FALSE,
      entry_confirm_type_continuation |-> "none",
      cisd_confirmed        |-> FALSE,
      sniper_clean          |-> FALSE,
      session_alignment     |-> session_valid_flags.session_valid_continuation,
      session_valid_sniper  |-> session_valid_flags.session_valid_sniper,
      session_valid_continuation |-> session_valid_flags.session_valid_continuation,
      htf_alignment         |-> FALSE,
      distribution_active   |-> FALSE,
      structure_ok          |-> structure_ok,
      structure_ok_continuation |-> FALSE,
      liquidity_ok          |-> FALSE,
      certified             |-> FALSE,
      rr                    |-> rr,
      news_block            |-> news_block,
      volatility_risk       |-> "normal",
      entry |-> TBD, stop |-> TBD, tp1 |-> TBD, tp2 |-> TBD ]

(* a default Factor Set that passes the regime gate and the RR floor *)
NeutralFactors_Tradeable(news_block) == NeutralFactorsWith(news_block, TRUE, 30)

(* the Factor Set of a symbol without enough bars *)
NeutralFactors(news_block) ==
    [ bias                  |-> "neutral",
      po3_bias              |-> "neutral",
      po3_phase             |-> "ACCUMULATION",
      po3_active            |-> FALSE,
      accumulation_detected |-> FALSE,
      liquidity_sweep       |-> FALSE,
      agreement_reclaim     |-> FALSE,
      mss_shift             |-> FALSE,
      entry_confirmed       |-> FALSE,
      entry_confirm_type    |-> "none",
      entry_confirmed_sniper      |-> FALSE,
      entry_confirm_type_sniper   |-> "none",
      entry_confirmed_continuation    |-> FALSE,
      entry_confirm_type_continuation |-> "none",
      cisd_confirmed        |-> FALSE,
      sniper_clean          |-> FALSE,
      session_alignment     |-> session_valid_flags.session_valid_continuation,
      session_valid_sniper  |-> session_valid_flags.session_valid_sniper,
      session_valid_continuation |-> session_valid_flags.session_valid_continuation,
      htf_alignment         |-> FALSE,
      distribution_active   |-> FALSE,
      structure_ok          |-> FALSE,
      structure_ok_continuation |-> FALSE,
      liquidity_ok          |-> FALSE,
      certified             |-> FALSE,
      rr                    |-> 0,
      news_block            |-> news_block,
      volatility_risk       |-> "normal",
      entry |-> TBD, stop |-> TBD, tp1 |-> TBD, tp2 |-> TBD ]

(* the phase rule without its third branch: an MSS counts only after a sweep *)
Po3Phase_SweepOnly(liquidity_sweep, mss_shift, structure_ok_cont) ==
    IF liquidity_sweep /\ ~mss_shift THEN "MANIPULATION"
    ELSE IF liquidity_sweep /\ mss_shift THEN "DISTRIBUTION"
    ELSE "ACCUMULATION"

(* a phase rule that keeps MANIPULATION through the MSS *)
Po3Phase_SweepHolds(liquidity_sweep, mss_shift, structure_ok_cont) ==
    IF liquidity_sweep THEN "MANIPULATION"
    ELSE IF mss_shift /\ structure_ok_cont THEN "DISTRIBUTION"
    ELSE "ACCUMULATION"

(* app.py : build_snapshot, the PO3 phase *)
Po3Phase(liquidity_sweep, mss_shift, structure_ok_cont) ==
    IF liquidity_sweep /\ ~mss_shift THEN "MANIPULATION"
    ELSE IF liquidity_sweep /\ mss_shift THEN "DISTRIBUTION"
    ELSE IF mss_shift /\ structure_ok_cont THEN "DISTRIBUTION"
    ELSE "ACCUMULATION"

(* the body of the symbol loop for a series of at least MIN_BARS bars;     *)
(* [raised |-> TRUE] is the ZeroDivisionError of the rr quotient           *)
ExtractFactors(sym, df, htf_df, news_block) ==
    LET last       == df[Len(df)]
        last_close == last.close
        trend_bias == price_action_bias(df)
        accumulation_detected == detect_accumulation(htf_df)
        sweep      == detect_sweep(df)
        liquidity_sweep == sweep.above \/ sweep.below
        po3_bias   == IF sweep.above THEN "bearish"
                      ELSE IF sweep.below THEN "bullish" ELSE trend_bias
        mss        == detect_mss(df)
        mss_shift  == (po3_bias = "bullish" /\ mss.bull) \/ (po3_bias = "bearish" /\ mss.bear)
        agreement_line == current_4h_open(htf_df, last_close)
        agreement_reclaim ==
            \/ (po3_bias = "bullish" /\ last_close > agreement_line)
            \/ (po3_bias = "bearish" /\ last_close < agreement_line)
        recent     == tail(df, 24)
        rng        == HighMax(recent) - LowMin(recent)
        structure_ok      == rng * 10000 > last_close * 5
        structure_ok_cont == structure_ok_continuation(df, po3_bias)
        po3_phase == Po3Phase(liquidity_sweep, mss_shift, structure_ok_cont)
        distribution_active == (po3_phase = "DISTRIBUTION")
        ranges     == [ i \in DOMAIN df |-> df[i].high - df[i].low ]
        last_range == last.high - last.low
        sum20      == SumOver(ranges, Len(df) - 19, Len(df))
        liquidity_ok == sum20 > 0 /\ last_range * 20 * 100 > sum20 * 105
        a14        == atr(df)
        entry      == last_close
        thr        == IF sym \in {"XAUUSD", "XAGUSD", "WTI"}
                      THEN [high |-> 8, extreme |-> 12] ELSE [high |-> 6, extreme |-> 10]
        volatility_risk ==
            IF entry = 0 THEN "normal"
            ELSE IF a14 * 1000 >= thr.extreme * ATR_N * entry THEN "extreme"
            ELSE IF a14 * 1000 >= thr.high * ATR_N * entry THEN "high"
            ELSE "normal"
        (* stop = entry -+ 1.2 * a, tp1 = entry +- 2 * 1.2 * a; 1.2 / 14 = 3 / 35 *)
        stop == IF po3_bias = "bullish" THEN RoundHalfEven(entry * 35 - 3 * a14, 35)
                ELSE IF po3_bias = "bearish" THEN RoundHalfEven(entry * 35 + 3 * a14, 35)
                ELSE TBD
        tp1  == IF po3_bias = "bullish" THEN RoundHalfEven(entry * 35 + 6 * a14, 35)
                ELSE IF po3_bias = "bearish" THEN RoundHalfEven(entry * 35 - 6 * a14, 35)
                ELSE TBD
        rr   == IF po3_bias \in Directional THEN 20 ELSE 0
        liquidity_targets == compute_liquidity_targets(df)
        tp2  == IF po3_bias = "bullish" /\ liquidity_targets # EmptyDict
                  THEN liquidity_targets.weekly_high
                ELSE IF po3_bias = "bearish" /\ liquidity_targets # EmptyDict
                  THEN liquidity_targets.weekly_low
                ELSE TBD
        stacked_narrative == liquidity_sweep /\ mss_shift /\ agreement_reclaim
        body_ok_thr == IF stacked_narrative THEN 30 ELSE 35
        base == detect_entry_confirmation(df, po3_bias, body_ok_thr)
        cisd == detect_cisd_protected_swing(df, po3_bias, body_ok_thr)
        entry_confirmed_sniper == base.ok \/ cisd.ok
        htf_bias      == price_action_bias(htf_df)
        htf_alignment == htf_bias \in {"neutral", po3_bias}
        po3_active    == liquidity_sweep /\ mss_shift
        sniper_clean  == accumulation_detected /\ liquidity_sweep /\ mss_shift /\ agreement_reclaim
    IN  IF po3_bias \in Directional /\ a14 = 0 THEN [raised |-> TRUE]
        ELSE
        [ raised  |-> FALSE,
          factors |->
            [ bias                  |-> trend_bias,
              po3_bias              |-> po3_bias,
              po3_phase             |-> po3_phase,
              po3_active            |-> po3_active,
              accumulation_detected |-> accumulation_detected,
              liquidity_sweep       |-> liquidity_sweep,
              agreement_reclaim     |-> agreement_reclaim,
              mss_shift             |-> mss_shift,
              entry_confirmed       |-> base.ok,
              entry_confirm_type    |-> base.type,
              entry_confirmed_sniper      |-> entry_confirmed_sniper,
              entry_confirm_type_sniper   |-> IF cisd.ok THEN cisd.type ELSE base.type,
              entry_confirmed_continuation    |-> base.ok,
              entry_confirm_type_continuation |-> base.type,
              cisd_confirmed        |-> cisd.ok,
              sniper_clean          |-> sniper_clean,
              session_alignment     |-> session_valid_flags.session_valid_continuation,
              session_valid_sniper  |-> session_valid_flags.session_valid_sniper,
              session_valid_continuation |-> session_valid_flags.session_valid_continuation,
              htf_alignment         |-> htf_alignment,
              distribution_active   |-> distribution_active,
              structure_ok          |-> structure_ok,
              structure_ok_continuation |-> structure_ok_cont,
              liquidity_ok          |-> liquidity_ok,
              certified             |-> accumulation_detected /\ liquidity_sweep
                                        /\ agreement_reclaim /\ mss_shift
                                        /\ entry_confirmed_sniper /\ rr >= 20,
              rr                    |-> rr,
              news_block            |-> news_block,
              volatility_risk       |-> volatility_risk,
              entry |-> entry, stop |-> stop, tp1 |-> tp1, tp2 |-> tp2 ] ]

(* one pass of the symbol loop: the Factor Set of sym from what fetch_ohlc *)
(* returned for it (an exception of fetch_ohlc is the empty series)        *)
SymbolFactors(sym, df, htf_df, news_block) ==
    IF Len(df) < MIN_BARS
      THEN [raised |-> FALSE, factors |-> NeutralFactors(news_block)]
    ELSE ExtractFactors(sym, df, htf_df, news_block)

---------------------------------------------------------------------------
(* State: the Streamlit session (profiles, the cooldown dicts), the clock, *)
(* and the inputs and results of the latest run_decisions call:            *)
(*   gated     the decide_from_factors results, in profile order           *)
(*   proposed  the decisions as they reach the cooldown step               *)
(*   decisions the list run_decisions returns                              *)
(*   prev_fired, prev_fired_ts  the cooldown dicts as that call found them *)

VARIABLES profiles, candles, factors_by_symbol, gated, sized, proposed, decisions,
          last_fired, last_fired_ts, prev_fired, prev_fired_ts, now, pc,
          ALERT_MODE3, ALERT_HIGHCONF, last_alerted_action, last_alerted_ts, alert_log,
          sent_alerts, tg_last, once_log, portfolio, snapshot_cache, fvg_ctx

(* the session beside the decision engine: the two alert toggles of the    *)
(* sidebar, the alert records of app.py and of alerts/telegram.py, the     *)
(* paper portfolio and the st.cache_data entry of build_snapshot.          *)
(* alert_log and once_log are histories: one entry per call of             *)
(* send_telegram_message, with its outcome.  fvg_ctx is the dict that      *)
(* compute_fvg_context returned last.                                      *)
session == <<ALERT_MODE3, ALERT_HIGHCONF, last_alerted_action, last_alerted_ts, alert_log,
             sent_alerts, tg_last, once_log, portfolio, snapshot_cache, fvg_ctx>>

vars == <<profiles, candles, factors_by_symbol, gated, sized, proposed, decisions,
          last_fired, last_fired_ts, prev_fired, prev_fired_ts, now, pc,
          ALERT_MODE3, ALERT_HIGHCONF, last_alerted_action, last_alerted_ts, alert_log,
          sent_alerts, tg_last, once_log, portfolio, snapshot_cache, fvg_ctx>>

(* engine/portfolio.py : init_portfolio_state *)
init_portfolio_state ==
    [ starting_equity |-> [num |-> 10000, den |-> 1],
      equity          |-> [num |-> 10000, den |-> 1],
      realized_pnl    |-> [num |-> 0, den |-> 1],
      unrealized_pnl  |-> [num |-> 0, den |-> 1],
      open_positions  |-> <<>>,
      closed_trades   |-> <<>> ]

(* the session of a first run of the script: setdefault of the alert       *)
(* records, the toggles at their defaults, nothing cached                  *)
SessionStart ==
    /\ ALERT_MODE3 = FALSE
    /\ ALERT_HIGHCONF = TRUE
    /\ last_alerted_action = EmptyDict
    /\ last_alerted_ts = EmptyDict
    /\ alert_log = <<>>
    /\ sent_alerts = {}
    /\ tg_last = EmptyDict
    /\ once_log = <<>>
    /\ fvg_ctx = EmptyDict
    /\ portfolio = init_portfolio_state
    /\ snapshot_cache = EmptyDict

StartTime == 7200

(* one run_decisions call at clock value t on the Factor Sets fbs *)
RunDecisionsAt(fbs, t) ==
    \E r \in { run_decisions(profiles, fbs, last_fired, last_fired_ts, t) } :
        /\ decisions' = r.acc.decisions
        /\ proposed' = r.acc.proposed
        /\ gated' = r.acc.gated
        /\ sized' = r.acc.sized
        /\ last_fired' = r.lf
        /\ last_fired_ts' = r.lts
        /\ prev_fired' = last_fired
        /\ prev_fired_ts' = last_fired_ts

---------------------------------------------------------------------------
(* app.py : the alert gate.  Confidence is in tenths, time in seconds.     *)

(* a 30-minute alert window *)
ALERT_COOLDOWN_SECS_Short == 30 * 60

ALERT_COOLDOWN_SECS == 60 * 60

ALERT_CONFIDENCE_MIN == 80

CONTINUATION_ALERT_MIN == 65

(* the floor with the continuation value as a parameter *)
AlertMinConfWith(decision, continuation_min) ==
    LET setup == Get(decision.meta, "setup_type", "")
    IN  IF setup = "CONTINUATION" THEN continuation_min ELSE ALERT_CONFIDENCE_MIN

(* one floor for every setup *)
_alert_min_conf_Flat(decision) == CONTINUATION_ALERT_MIN

_alert_min_conf(decision) == AlertMinConfWith(decision, CONTINUATION_ALERT_MIN)

(* the entry alert_log keeps of one send_telegram_message call: the        *)
(* Decision that was formatted, the clock, the toggles and the record the  *)
(* call site read, and what the call returned                              *)
SendEntry(decision, t, mode3, highconf, last, last_time, ok) ==
    [ symbol     |-> decision.symbol,
      action     |-> decision.action,
      confidence |-> decision.confidence,
      mode       |-> decision.mode,
      setup      |-> Get(decision.meta, "setup_type", ""),
      ts         |-> t,
      mode3      |-> mode3,
      highconf   |-> highconf,
      last       |-> last,
      last_time  |-> last_time,
      ok         |-> ok ]

(* whether the loop body reaches send_telegram_message for this Decision *)
AlertDue(decision, al, t, mode3, highconf) ==
    LET last      == Get(al.last_action, decision.symbol, "None")
        last_time == Get(al.last_ts, decision.symbol, 0)
        in_window == (t - last_time) < ALERT_COOLDOWN_SECS
    IN  /\ decision.action \in {"BUY NOW", "SELL NOW"}
        /\ ~(highconf /\ decision.confidence < _alert_min_conf(decision))
        /\ ~(in_window /\ ~mode3)
        /\ ~(in_window /\ last = decision.action)

(* the record written before the outcome of the send is known *)
AlertStep_RecordFirst(decision, al, t, mode3, highconf, ok) ==
    IF AlertDue(decision, al, t, mode3, highconf)
      THEN [ last_action |-> Update(al.last_action, [k \in {decision.symbol} |-> decision.action]),
             last_ts     |-> Update(al.last_ts, [k \in {decision.symbol} |-> t]),
             log         |-> Append(al.log,
                               SendEntry(decision, t, mode3, highconf,
                                         Get(al.last_action, decision.symbol, "None"),
                                         Get(al.last_ts, decision.symbol, 0), ok)) ]
    ELSE al

(* one iteration of the loop of maybe_send_trade_alerts; al holds          *)
(* last_alerted_action, last_alerted_ts and the log, ok is what            *)
(* send_telegram_message returns if it is called                           *)
AlertStep(decision, al, t, mode3, highconf, ok) ==
    IF AlertDue(decision, al, t, mode3, highconf)
      THEN [ last_action |-> IF ok THEN Update(al.last_action,
                                               [k \in {decision.symbol} |-> decision.action])
                             ELSE al.last_action,
             last_ts     |-> IF ok THEN Update(al.last_ts, [k \in {decision.symbol} |-> t])
                             ELSE al.last_ts,
             log         |-> Append(al.log,
                               SendEntry(decision, t, mode3, highconf,
                                         Get(al.last_action, decision.symbol, "None"),
                                         Get(al.last_ts, decision.symbol, 0), ok)) ]
    ELSE al

RECURSIVE AlertLoop(_, _, _, _, _, _, _)
AlertLoop(ds, i, al, t, mode3, highconf, oks) ==
    IF i > Len(ds) THEN al
    ELSE \* one step, then the rest of the list
         LET next == AlertStep(ds[i], al, t, mode3, highconf, oks[ds[i].symbol])
         IN  AlertLoop(ds, i + 1, next, t, mode3, highconf, oks)

(* app.py : maybe_send_trade_alerts at clock value t; oks gives, per       *)
(* symbol, what send_telegram_message returns                              *)
maybe_send_trade_alerts(ds, al, t, mode3, highconf, oks) ==
    AlertLoop(ds, 1, al, t, mode3, highconf, oks)

---------------------------------------------------------------------------
(* alerts/telegram.py : send_trade_alert_once.  rr is in tenths.           *)

ALLOWED_ACTIONS == {"BUY NOW", "SELL NOW"}

MIN_CONFIDENCE == 90

(* MIN_RR of alerts/telegram.py *)
TELEGRAM_MIN_RR == 20

COOLDOWN_SEC_Short == 5 * 60

COOLDOWN_SEC == 15 * 60

(* the entry once_log keeps of one send_trade_alert_once call: `called`    *)
(* tells whether send_telegram_message was reached, `ok` what the function *)
(* returned                                                                *)
OnceEntry(decision, rr_val, t, called, ok) ==
    [ symbol     |-> decision.symbol,
      action     |-> decision.action,
      confidence |-> decision.confidence,
      rr         |-> rr_val,
      ts         |-> t,
      called     |-> called,
      ok         |-> ok ]

(* whether the function reaches send_telegram_message *)
OnceDue(decision, ss, t, arm_alerts, news_events) ==
    LET rr     == Get(decision.trade_plan, "rr", 0)
        rr_val == IF rr = TBD THEN 0 ELSE rr
    IN  /\ arm_alerts
        /\ ~news_events
        /\ decision.action \in ALLOWED_ACTIONS
        /\ ~(decision.confidence < MIN_CONFIDENCE)
        /\ ~(rr_val < TELEGRAM_MIN_RR)
        /\ ~(t - Get(ss.tg_last, decision.symbol, 0) < COOLDOWN_SEC)
        /\ <<decision.symbol, decision.action>> \notin ss.sent_alerts

(* the key and the cooldown stamp written before the send *)
send_trade_alert_once_RecordFirst(decision, ss, t, arm_alerts, news_events, ok) ==
    LET rr     == Get(decision.trade_plan, "rr", 0)
        rr_val == IF rr = TBD THEN 0 ELSE rr
    IN  IF OnceDue(decision, ss, t, arm_alerts, news_events)
          THEN [ sent_alerts |-> ss.sent_alerts \cup {<<decision.symbol, decision.action>>},
                 tg_last     |-> Update(ss.tg_last, [k \in {decision.symbol} |-> t]),
                 log         |-> Append(ss.log, OnceEntry(decision, rr_val, t, TRUE, ok)) ]
        ELSE [ ss EXCEPT !.log = Append(ss.log, OnceEntry(decision, rr_val, t, FALSE, FALSE)) ]

(* alerts/telegram.py : send_trade_alert_once at clock value t; ss holds   *)
(* sent_alerts, the tg_last_<symbol> stamps and the log, ok is what        *)
(* send_telegram_message returns if it is called; the return value is the  *)
(* ok field of the last log entry                                          *)
send_trade_alert_once(decision, ss, t, arm_alerts, news_events, ok) ==
    LET rr     == Get(decision.trade_plan, "rr", 0)
        rr_val == IF rr = TBD THEN 0 ELSE rr
    IN  IF OnceDue(decision, ss, t, arm_alerts, news_events)
          THEN [ sent_alerts |-> IF ok THEN ss.sent_alerts \cup {<<decision.symbol, decision.action>>}
                                 ELSE ss.sent_alerts,
                 tg_last     |-> IF ok THEN Update(ss.tg_last, [k \in {decision.symbol} |-> t])
                                 ELSE ss.tg_last,
                 log         |-> Append(ss.log, OnceEntry(decision, rr_val, t, TRUE, ok)) ]
        ELSE [ ss EXCEPT !.log = Append(ss.log, OnceEntry(decision, rr_val, t, FALSE, FALSE)) ]

---------------------------------------------------------------------------
(* engine/portfolio.py : the paper portfolio.  Money (pnl, equity) is an   *)
(* exact signed quotient [num, den] with den > 0; a position's size is the *)
(* quotient apply_sizing computed.  The equity_curve list, which only the  *)
(* panel reads, is left out.                                               *)

(* Python's None where a price is expected *)
None == -4

(* engine/portfolio.py : _to_float; float("TBD") raises and gives the default *)
_to_float(x, default) == IF x \in {TBD, None} THEN default ELSE x

(* a or b on price values: None and 0.0 are falsy, the string "TBD" is not *)
OrElse(a, b) == IF a \in {None, 0} THEN b ELSE a

Money(num, den) ==
    IF num = 0 THEN [num |-> 0, den |-> 1]
    ELSE LET g == Gcd(Abs(num), den) IN [num |-> num \div g, den |-> den \div g]

MoneyAdd(a, b) == Money(a.num * b.den + b.num * a.den, a.den * b.den)

MoneyOf(n) == [num |-> n, den |-> 1]

(* engine/portfolio.py : _find_open_position; the index of the first       *)
(* position of the symbol, 0 for None                                      *)
_find_open_position(open_positions, symbol) ==
    LET hits == { i \in DOMAIN open_positions : open_positions[i].symbol = symbol }
    IN  IF hits = {} THEN 0 ELSE SetMin(hits)

(* engine/portfolio.py : _remove_open_position *)
_remove_open_position(open_positions, symbol) ==
    SelectSeq(open_positions, LAMBDA p : p.symbol # symbol)

(* engine/portfolio.py : _last_price_from_factors; an empty frame raises   *)
(* on iloc[-1] and the entry level is tried                                *)
_last_price_from_factors(factors) ==
    IF "df" \in DOMAIN factors /\ Len(factors.df) > 0
      THEN factors.df[Len(factors.df)].close
      ELSE _to_float(Get(factors, "entry", None), None)

(* engine/portfolio.py : _bar_hl_from_factors *)
_bar_hl_from_factors(factors) ==
    IF "df" \in DOMAIN factors /\ Len(factors.df) > 0
      THEN [ high |-> factors.df[Len(factors.df)].high, low |-> factors.df[Len(factors.df)].low ]
      ELSE [ high |-> None, low |-> None ]

(* (exit - entry) * size for a buy, (entry - exit) * size for a sell *)
SidePnl(side, entry, price, size) ==
    IF side = "buy" THEN Money((price - entry) * size.num, size.den)
    ELSE IF side = "sell" THEN Money((entry - price) * size.num, size.den)
    ELSE MoneyOf(0)

(* engine/portfolio.py : _calc_unrealized *)
_calc_unrealized(pos, last_price) == SidePnl(pos.side, pos.entry, last_price, pos.size)

(* the trade record _close_position builds at clock value t *)
TradeOf(pos, exit_price, reason, t) ==
    [ symbol     |-> pos.symbol,
      side       |-> pos.side,
      size       |-> pos.size,
      entry      |-> pos.entry,
      exit       |-> exit_price,
      pnl        |-> SidePnl(pos.side, pos.entry, exit_price, pos.size),
      opened_at  |-> pos.opened_at,
      closed_at  |-> t,
      reason     |-> reason,
      stop       |-> pos.stop,
      tp1        |-> pos.tp1,
      tp2        |-> pos.tp2,
      confidence |-> pos.confidence,
      risk_pct   |-> pos.risk_pct ]

(* the trade recorded but the position left in the open list *)
_close_position_KeepOpen(p, pos, exit_price, reason, t) ==
    LET realized == SidePnl(pos.side, pos.entry, exit_price, pos.size)
        total    == MoneyAdd(p.realized_pnl, realized)
    IN  [ p EXCEPT !.realized_pnl  = total,
                   !.equity        = MoneyAdd(MoneyAdd(p.starting_equity, total), p.unrealized_pnl),
                   !.closed_trades = Append(p.closed_trades, TradeOf(pos, exit_price, reason, t)) ]

(* engine/portfolio.py : _close_position *)
_close_position(p, pos, exit_price, reason, t) ==
    LET realized == SidePnl(pos.side, pos.entry, exit_price, pos.size)
        total    == MoneyAdd(p.realized_pnl, realized)
    IN  [ p EXCEPT !.realized_pnl   = total,
                   !.equity         = MoneyAdd(MoneyAdd(p.starting_equity, total), p.unrealized_pnl),
                   !.closed_trades  = Append(p.closed_trades, TradeOf(pos, exit_price, reason, t)),
                   !.open_positions = _remove_open_position(p.open_positions, pos.symbol) ]

(* engine/portfolio.py : update_portfolio, step 1, what the loop body does *)
(* with one position: "skip" (no last price), "close" at a price with a    *)
(* reason, or "mark" to market at the last price                           *)
MarkVerdict(pos, factors) ==
    LET last_price == _last_price_from_factors(factors)
        bar        == _bar_hl_from_factors(factors)
        stop       == _to_float(pos.stop, None)
        tp1        == _to_float(pos.tp1, None)
        has_bar    == bar.high # None /\ bar.low # None
    IN  IF last_price = None THEN [kind |-> "skip"]
        ELSE IF has_bar /\ pos.side = "buy" /\ stop # None /\ bar.low <= stop
          THEN [kind |-> "close", price |-> stop, reason |-> "STOP"]
        ELSE IF has_bar /\ pos.side = "buy" /\ tp1 # None /\ bar.high >= tp1
          THEN [kind |-> "close", price |-> tp1, reason |-> "TP1"]
        ELSE IF has_bar /\ pos.side = "sell" /\ stop # None /\ bar.high >= stop
          THEN [kind |-> "close", price |-> stop, reason |-> "STOP"]
        ELSE IF has_bar /\ pos.side = "sell" /\ tp1 # None /\ bar.low <= tp1
          THEN [kind |-> "close", price |-> tp1, reason |-> "TP1"]
        ELSE [kind |-> "mark", price |-> last_price]

(* the loop of step 1 over the copy list(open_positions).  m.p is the      *)
(* portfolio, m.marks the unrealized pnl written onto positions of the     *)
(* copy (the dicts are shared with the live list), m.total the sum         *)
RECURSIVE MarkLoop(_, _, _, _, _)
MarkLoop(copy, i, m, fbs, t) ==
    IF i > Len(copy) THEN m
    ELSE
        LET pos == copy[i]
            Body(v) ==
                IF v.kind = "skip" THEN m
                ELSE IF v.kind = "close"
                  THEN [ m EXCEPT !.p = _close_position(m.p, pos, v.price, v.reason, t) ]
                ELSE LET unreal == _calc_unrealized(pos, v.price)
                     IN  [ m EXCEPT !.marks = Update(m.marks, [k \in {i} |-> unreal]),
                                    !.total = MoneyAdd(m.total, unreal) ]
            Cont(m2) == MarkLoop(copy, i + 1, m2, fbs, t)
        IN  Bind(Bind(MarkVerdict(pos, Get(fbs, pos.symbol, EmptyDict)), Body), Cont)

(* step 1 of update_portfolio: the loop, then unrealized_pnl and equity *)
MarkToMarket(p, fbs, t) ==
    LET copy == p.open_positions
        Finish(m) ==
            LET Marked(q) ==
                    LET i == CHOOSE i \in DOMAIN copy : copy[i] = q
                    IN  IF i \in DOMAIN m.marks THEN [q EXCEPT !.unrealized_pnl = m.marks[i]] ELSE q
            IN  [ m.p EXCEPT
                    !.open_positions = [ k \in DOMAIN m.p.open_positions |-> Marked(m.p.open_positions[k]) ],
                    !.unrealized_pnl = m.total,
                    !.equity = MoneyAdd(MoneyAdd(m.p.starting_equity, m.p.realized_pnl), m.total) ]
    IN  Bind(MarkLoop(copy, 1, [p |-> p, marks |-> EmptyDict, total |-> MoneyOf(0)], fbs, t),
             Finish)

(* float size <= 0; every comparison with nan is false *)
SizeNotPositive(size) == size.den # 0 /\ size.num <= 0

(* the position dict update_portfolio builds for a signal *)
PositionOf(sym, side, size, entry, stop, tp1, tp2, t, confidence, risk_pct) ==
    [ symbol         |-> sym,
      side           |-> side,
      size           |-> size,
      entry          |-> entry,
      stop           |-> stop,
      tp1            |-> tp1,
      tp2            |-> tp2,
      opened_at      |-> t,
      confidence     |-> confidence,
      risk_pct       |-> risk_pct,
      unrealized_pnl |-> MoneyOf(0) ]

(* a signal opens a position whatever is open for the symbol *)
SignalStep_AlwaysOpen(p, d, fbs, t) ==
    IF d.action \notin {"BUY NOW", "SELL NOW"} THEN p
    ELSE
        LET factors == Get(fbs, d.symbol, EmptyDict)
            side    == IF d.action = "BUY NOW" THEN "buy" ELSE "sell"
            entry   == _to_float(OrElse(Get(d.trade_plan, "entry", None), Get(factors, "entry", None)), None)
            stop    == _to_float(OrElse(Get(d.trade_plan, "stop", None), Get(factors, "stop", None)), None)
        IN  IF entry = None \/ stop = None \/ SizeNotPositive(d.size) THEN p
            ELSE [ p EXCEPT !.open_positions =
                     Append(p.open_positions,
                            PositionOf(d.symbol, side, d.size, entry, stop, None, None, t,
                                       d.confidence, d.risk_pct)) ]

(* engine/portfolio.py : update_portfolio, step 2, the loop body for one   *)
(* Decision                                                                *)
SignalStep(p, d, fbs, t) ==
    IF d.action \notin {"BUY NOW", "SELL NOW"} THEN p
    ELSE
        LET factors    == Get(fbs, d.symbol, EmptyDict)
            last_price == _last_price_from_factors(factors)
            trade_plan == d.trade_plan
            side       == IF d.action = "BUY NOW" THEN "buy" ELSE "sell"
            entry0 == _to_float(OrElse(Get(trade_plan, "entry", None), Get(factors, "entry", None)), None)
            stop   == _to_float(OrElse(Get(trade_plan, "stop", None), Get(factors, "stop", None)), None)
            tp1    == _to_float(OrElse(Get(trade_plan, "tp1", None), Get(factors, "tp1", None)), None)
            tp2    == _to_float(OrElse(Get(trade_plan, "tp2", None), Get(factors, "tp2", None)), None)
            size       == d.size
            existing   == _find_open_position(p.open_positions, d.symbol)
            same_side  == existing # 0 /\ p.open_positions[existing].side = side
            exit_px    == IF last_price # None THEN last_price
                          ELSE IF entry0 # None THEN entry0 ELSE 0
            entry      == IF entry0 = None THEN last_price ELSE entry0
            Open(p1) ==
                IF entry = None \/ stop = None \/ SizeNotPositive(size) THEN p1
                ELSE LET pos     == PositionOf(d.symbol, side, size, entry, stop, tp1, tp2, t,
                                               d.confidence, d.risk_pct)
                         new_pos == PositionOf(d.symbol, side, size, entry, stop, tp1, tp2, t,
                                               d.confidence, d.risk_pct)
                         appended == Append(p1.open_positions, pos)
                     IN  [ p1 EXCEPT !.open_positions =
                             Append(_remove_open_position(appended, d.symbol), new_pos) ]
        IN  IF same_side THEN p
            ELSE IF existing # 0
              THEN Bind(_close_position(p, p.open_positions[existing], exit_px, "REVERSE", t), Open)
            ELSE Open(p)

RECURSIVE SignalLoop(_, _, _, _, _)
SignalLoop(p, ds, i, fbs, t) ==
    IF i > Len(ds) THEN p
    ELSE \* one Decision, then the rest
         LET Cont(p1) == SignalLoop(p1, ds, i + 1, fbs, t)
         IN  Bind(SignalStep(p, ds[i], fbs, t), Cont)

(* engine/portfolio.py : update_portfolio at clock value t *)
update_portfolio(p, ds, fbs, t) ==
    LET Signals(p1) == SignalLoop(p1, ds, 1, fbs, t)
    IN  Bind(MarkToMarket(p, fbs, t), Signals)

(* a single call on a given Factor Set and a fresh session *)
InitGate ==
    /\ profiles = <<"EURUSD">>
    /\ SessionStart
    /\ \E c \in GateCores : factors_by_symbol = [ sym \in {"EURUSD"} |-> FactorsOf(c) ]
    /\ candles = EmptyDict
    /\ gated = <<>>
    /\ sized = <<>>
    /\ proposed = <<>>
    /\ decisions = <<>>
    /\ last_fired = EmptyDict
    /\ last_fired_ts = EmptyDict
    /\ prev_fired = EmptyDict
    /\ prev_fired_ts = EmptyDict
    /\ now = StartTime
    /\ pc = "ready"

Apply ==
    /\ pc = "ready"
    /\ RunDecisionsAt(factors_by_symbol, now)
    /\ pc' = "idle"
    /\ UNCHANGED <<profiles, candles, factors_by_symbol, now>>
    /\ UNCHANGED session

NextGate == Apply

SpecGate == InitGate /\ [][NextGate]_vars

(* a single call on a given Factor Set, in a session that is fresh or has *)
(* fired for the symbol ten minutes ago                                     *)
(* a single call on a Factor Set of the sizing family *)
InitSizing ==
    /\ profiles = <<"EURUSD">>
    /\ SessionStart
    /\ \E c \in SizingCores, x \in LevelExtras :
          factors_by_symbol = [ sym \in {"EURUSD"} |-> Update(FactorsOf(c), x) ]
    /\ candles = EmptyDict
    /\ gated = <<>>
    /\ sized = <<>>
    /\ proposed = <<>>
    /\ decisions = <<>>
    /\ last_fired = EmptyDict
    /\ last_fired_ts = EmptyDict
    /\ prev_fired = EmptyDict
    /\ prev_fired_ts = EmptyDict
    /\ now = StartTime
    /\ pc = "ready"

SpecSizing == InitSizing /\ [][NextGate]_vars

CooldownSeeds ==
    { [lf |-> EmptyDict, lts |-> EmptyDict] }
    \cup { [lf |-> [k \in {"EURUSD"} |-> a], lts |-> [k \in {"EURUSD"} |-> StartTime - 600]] :
             a \in FireActions }

InitRules ==
    /\ profiles = <<"EURUSD">>
    /\ SessionStart
    /\ factors_by_symbol \in [ {"EURUSD"} -> RuleFactors ]
    /\ candles = EmptyDict
    /\ gated = <<>>
    /\ sized = <<>>
    /\ proposed = <<>>
    /\ decisions = <<>>
    /\ \E seed \in CooldownSeeds :
          /\ last_fired = seed.lf
          /\ last_fired_ts = seed.lts
          /\ prev_fired = seed.lf
          /\ prev_fired_ts = seed.lts
    /\ now = StartTime
    /\ pc = "ready"

SpecRules == InitRules /\ [][NextGate]_vars

(* two symbols in one call whose Factor Sets differ in one boolean key:    *)
(* the second symbol gets the Factor Set of the first with the key flipped *)
PairCores ==
    [ bias: {"neutral"}, po3_bias: Biases, phase: {"ACCUMULATION", "DISTRIBUTION"},
      rr: {15, 30},
      acc: {TRUE}, sweep: BOOLEAN, agree: {TRUE}, mss: BOOLEAN,
      ecs: BOOLEAN, ecc: BOOLEAN, dist: {TRUE}, sokc: {TRUE}, clean: BOOLEAN,
      po3a: BOOLEAN, sess: BOOLEAN, htf: {FALSE},
      svs: {TRUE}, svc: {TRUE}, sok: BOOLEAN, liq: {FALSE}, news: BOOLEAN,
      vol: {"normal"}, numeric: {TRUE} ]

PairFactors ==
    { Update(FactorsOf(c), x) :
        c \in PairCores,
        x \in { EmptyDict, [bull_break |-> TRUE, bear_break |-> TRUE] } }

PairKeys == {"sniper_clean", "news_block"}

Toggle(f, k) == [f EXCEPT ![k] = ~@]

PairSeeds ==
    { [lf |-> EmptyDict, lts |-> EmptyDict] }
    \cup { [lf  |-> [k \in {"EURUSD", "GBPUSD"} |-> "SELL NOW"],
            lts |-> [k \in {"EURUSD", "GBPUSD"} |-> StartTime - 600]] }

InitPair ==
    /\ profiles = <<"EURUSD", "GBPUSD">>
    /\ SessionStart
    /\ \E f \in PairFactors, k \in PairKeys :
          factors_by_symbol = [EURUSD |-> f, GBPUSD |-> Toggle(f, k)]
    /\ candles = EmptyDict
    /\ gated = <<>>
    /\ sized = <<>>
    /\ proposed = <<>>
    /\ decisions = <<>>
    /\ \E seed \in PairSeeds :
          /\ last_fired = seed.lf
          /\ last_fired_ts = seed.lts
          /\ prev_fired = seed.lf
          /\ prev_fired_ts = seed.lts
    /\ now = StartTime
    /\ pc = "ready"

SpecPair == InitPair /\ [][NextGate]_vars

(* the refresh cycles of one session: every cycle reads the clock, gets a  *)
(* Factor Set per profile and runs run_decisions on them                   *)
MaxElapsed == 3600

ClockSteps == {600, 1800}

Init ==
    /\ profiles = <<"EURUSD">>
    /\ SessionStart
    /\ factors_by_symbol = EmptyDict
    /\ candles = EmptyDict
    /\ gated = <<>>
    /\ sized = <<>>
    /\ proposed = <<>>
    /\ decisions = <<>>
    /\ last_fired = EmptyDict
    /\ last_fired_ts = EmptyDict
    /\ prev_fired = EmptyDict
    /\ prev_fired_ts = EmptyDict
    /\ now = StartTime
    /\ pc = "idle"

Refresh ==
    /\ pc = "idle"
    /\ \E dt \in ClockSteps, fbs \in [ {profiles[i] : i \in 1..Len(profiles)} -> CycleFactors ] :
          /\ now + dt <= StartTime + MaxElapsed
          /\ now' = now + dt
          /\ factors_by_symbol' = fbs
          /\ RunDecisionsAt(fbs, now + dt)
    /\ UNCHANGED <<profiles, candles, pc>>
    /\ UNCHANGED session

Next == Refresh

Spec == Init /\ [][Next]_vars

---------------------------------------------------------------------------
(* The refresh cycle end to end: fetch_ohlc hands build_snapshot a 15m and *)
(* a 4h series per symbol, build_snapshot extracts the Factor Sets and     *)
(* calls run_decisions.  The series come from a menu of shapes around the  *)
(* price level P0.                                                         *)

P0 == 100000

SeriesLen == 70

FlatBar == Bar(P0, P0 + 1, P0 - 1, P0)

StillBar(p) == Bar(p, p, p, p)

BandBar == Bar(P0, P0 + 30, P0 - 30, P0)

UpBar(i) == Bar(P0 + 20 * (i - 1), P0 + 20 * i + 5, P0 + 20 * (i - 1) - 5, P0 + 20 * i)

DownBar(i) == Bar(P0 - 20 * (i - 1), P0 - 20 * (i - 1) + 5, P0 - 20 * i - 5, P0 - 20 * i)

(* a rise of one point a bar: new highs inside a range too narrow for the   *)
(* continuation structure                                                   *)
CreepBar(i) == Bar(P0 + i - 1, P0 + i, P0 + i - 1, P0 + i)

Repeat(b, n) == [ i \in 1..n |-> b ]

(* the closing bars of a band: a spike through the band's high that closes  *)
(* under its low, the mirror image, and a spike that closes back inside     *)
SweepAboveMssBar == Bar(P0 + 20, P0 + 40, P0 - 60, P0 - 50)

SweepBelowMssBar == Bar(P0 - 20, P0 + 60, P0 - 40, P0 + 50)

SweepAboveOnlyBar == Bar(P0, P0 + 40, P0 - 10, P0 + 10)

StallFrom == SeriesLen - ATR_N

Series15m ==
    { <<>>,
      Repeat(FlatBar, MIN_BARS - 1),
      Repeat(FlatBar, SeriesLen),
      Repeat(StillBar(P0), SeriesLen),
      [ i \in 1..SeriesLen |-> UpBar(i) ],
      [ i \in 1..SeriesLen |-> DownBar(i) ],
      [ i \in 1..SeriesLen |-> CreepBar(i) ],
      [ i \in 1..SeriesLen |-> IF i <= StallFrom THEN UpBar(i) ELSE StillBar(P0 + 20 * StallFrom) ],
      Repeat(BandBar, SeriesLen - 1) \o <<SweepAboveMssBar>>,
      Repeat(BandBar, SeriesLen - 1) \o <<SweepBelowMssBar>>,
      Repeat(BandBar, SeriesLen - 1) \o <<SweepAboveOnlyBar>> }

(* 4h series: none, or twenty wide bars closed by a narrow one that opens   *)
(* above or below the 15m prices                                            *)
HtfSeries(last_open) ==
    Repeat(Bar(P0, P0 + 200, P0 - 200, P0), 19)
        \o << Bar(last_open, last_open + 50, last_open - 50, last_open) >>

Series4h == { <<>>, HtfSeries(P0 + 2000), HtfSeries(P0 - 2000) }

Fetched == [ df : Series15m, htf_df : Series4h ]

SymbolsOf(profs) == { profs[i] : i \in 1..Len(profs) }

(* app.py : build_snapshot up to the run_decisions call; an exception in   *)
(* the symbol loop leaves the function                                     *)
build_snapshot(profs, fetched, news_block) ==
    LET per == [ sym \in SymbolsOf(profs) |->
                    SymbolFactors(sym, fetched[sym].df, fetched[sym].htf_df, news_block) ]
    IN  IF \E sym \in SymbolsOf(profs) : per[sym].raised
          THEN [raised |-> TRUE]
        ELSE [ raised |-> FALSE,
               factors_by_symbol |-> [ sym \in SymbolsOf(profs) |-> per[sym].factors ] ]

InitSnapshot ==
    /\ profiles = <<"EURUSD", "XAUUSD">>
    /\ SessionStart
    /\ candles \in [ {"EURUSD", "XAUUSD"} -> Fetched ]
    /\ factors_by_symbol = EmptyDict
    /\ gated = <<>>
    /\ sized = <<>>
    /\ proposed = <<>>
    /\ decisions = <<>>
    /\ last_fired = EmptyDict
    /\ last_fired_ts = EmptyDict
    /\ prev_fired = EmptyDict
    /\ prev_fired_ts = EmptyDict
    /\ now = StartTime
    /\ pc = "ready"

(* the script's try block: build_snapshot, then the session state update;  *)
(* on an exception snapshot_ready is cleared and the session keeps what it *)
(* had                                                                     *)
RefreshCycle ==
    /\ pc = "ready"
    /\ \E news_block \in BOOLEAN :
         \E snap \in { build_snapshot(profiles, candles, news_block) } :
            IF snap.raised
              THEN /\ pc' = "failed"
                   /\ UNCHANGED <<profiles, candles, factors_by_symbol, gated, sized, proposed,
                                  decisions, last_fired, last_fired_ts, prev_fired,
                                  prev_fired_ts, now>>
            ELSE /\ factors_by_symbol' = snap.factors_by_symbol
                 /\ RunDecisionsAt(snap.factors_by_symbol, now)
                 /\ pc' = "idle"
                 /\ UNCHANGED <<profiles, candles, now>>
    /\ UNCHANGED session

NextSnapshot == RefreshCycle

SpecSnapshot == InitSnapshot /\ [][NextSnapshot]_vars

---------------------------------------------------------------------------
(* The session over refresh cycles: build_snapshot (cached for 60 s by     *)
(* st.cache_data) hands the script the Factor Sets and the Decisions of    *)
(* run_decisions, update_portfolio reads both, the session keeps them and  *)
(* maybe_send_trade_alerts walks the Decisions.  Factor Sets are those of  *)
(* a caller that names the breakout, so that the rules let a fire through; *)
(* each may carry the frame under "df", of which the last bar is modelled. *)

SessionProfiles == <<"EURUSD", "XAUUSD">>

StrongCore(po3_bias) ==
    [ bias |-> "neutral", po3_bias |-> po3_bias, phase |-> "ACCUMULATION", rr |-> 30,
      acc |-> TRUE, sweep |-> TRUE, agree |-> TRUE, mss |-> TRUE,
      ecs |-> TRUE, ecc |-> FALSE, dist |-> FALSE, sokc |-> TRUE, clean |-> FALSE,
      po3a |-> TRUE, sess |-> TRUE, htf |-> TRUE,
      svs |-> TRUE, svc |-> TRUE, sok |-> TRUE, liq |-> FALSE, news |-> FALSE,
      vol |-> "normal", numeric |-> TRUE ]

Breakout == [bull_break |-> TRUE, bear_break |-> TRUE]

(* a sniper setup at confidence 10.0 with numeric levels: entry 100, the   *)
(* stop 10 away, tp1 20 away                                               *)
SniperSignal(po3_bias) == Update(FactorsOf(StrongCore(po3_bias)), Breakout)

(* a sniper setup at confidence 7.0, levels "TBD" *)
WeakSniperSignal(po3_bias) ==
    Update(FactorsOf([StrongCore(po3_bias) EXCEPT !.clean = TRUE, !.po3a = FALSE,
                                                  !.sess = FALSE, !.numeric = FALSE]),
           Breakout)

(* a continuation setup at confidence 6.5, levels "TBD" *)
ContinuationSignal(po3_bias) ==
    Update(FactorsOf([StrongCore(po3_bias) EXCEPT !.phase = "DISTRIBUTION", !.sweep = FALSE,
                                                  !.agree = FALSE, !.ecs = FALSE, !.ecc = TRUE,
                                                  !.dist = TRUE, !.sess = FALSE,
                                                  !.numeric = FALSE]),
           Breakout)

(* no setup, confidence 6.0: the breakout alone makes the action *)
BreakoutSignal(po3_bias) ==
    Update(FactorsOf([StrongCore(po3_bias) EXCEPT !.sweep = FALSE, !.agree = FALSE,
                                                  !.ecs = FALSE]),
           Breakout)

(* nothing to trade *)
NoSignal == FactorsOf([StrongCore("neutral") EXCEPT !.sweep = FALSE, !.mss = FALSE])

(* last bars: inside the levels, down through 90 and 80, up through 110 and 120 *)
QuietBar == Bar(100, 101, 99, 100)

(* inside the levels with the close away from the entry *)
DriftBar == Bar(100, 104, 99, 103)

LowBar == Bar(100, 101, 80, 95)

HighBar == Bar(100, 120, 99, 105)

WithBar(factors, bar) == Update(factors, [df |-> <<bar>>])

SessionFactors ==
    [ EURUSD |-> { EmptyDict,
                   WithBar(SniperSignal("bullish"), QuietBar),
                   WithBar(SniperSignal("bullish"), LowBar),
                   WithBar(SniperSignal("bearish"), QuietBar),
                   WithBar(SniperSignal("bearish"), DriftBar),
                   WeakSniperSignal("bullish"),
                   ContinuationSignal("bullish"),
                   WithBar(BreakoutSignal("bearish"), QuietBar),
                   WithBar(NoSignal, LowBar),
                   WithBar(NoSignal, HighBar) },
      XAUUSD |-> { EmptyDict,
                   WithBar(SniperSignal("bearish"), QuietBar) } ]

(* one call on two symbols whose Factor Sets and cooldown records are      *)
(* chosen independently, the profiles in either order                      *)
FrameFactors ==
    { EmptyDict, SniperSignal("bullish"), SniperSignal("bearish"), ContinuationSignal("bullish"),
      BreakoutSignal("bearish"), NoSignal,
      [SniperSignal("bullish") EXCEPT !["structure_ok"] = FALSE] }

(* the cooldown record of one symbol: none, a fire ten minutes ago, a fire *)
(* an hour ago                                                             *)
FrameSeeds ==
    { EmptyDict,
      [action |-> "BUY NOW", ts |-> StartTime - 600],
      [action |-> "SELL NOW", ts |-> StartTime - 600],
      [action |-> "BUY NOW", ts |-> StartTime - 3600] }

InitFrame ==
    /\ profiles \in { <<"EURUSD", "XAUUSD">>, <<"XAUUSD", "EURUSD">> }
    /\ SessionStart
    /\ factors_by_symbol \in [ {"EURUSD", "XAUUSD"} -> FrameFactors ]
    /\ candles = EmptyDict
    /\ gated = <<>>
    /\ sized = <<>>
    /\ proposed = <<>>
    /\ decisions = <<>>
    /\ \E seed \in [ {"EURUSD", "XAUUSD"} -> FrameSeeds ] :
          LET fired == { s \in DOMAIN seed : seed[s] # EmptyDict }
          IN  /\ last_fired = [ s \in fired |-> seed[s].action ]
              /\ last_fired_ts = [ s \in fired |-> seed[s].ts ]
              /\ prev_fired = last_fired
              /\ prev_fired_ts = last_fired_ts
    /\ now = StartTime
    /\ pc = "ready"

SpecFrame == InitFrame /\ [][NextGate]_vars

(* app.py : build_snapshot, the metadata written onto each Decision *)
InjectMeta(d, f) ==
    LET meta1 == IF "po3_phase" \in DOMAIN d.meta THEN d.meta
                 ELSE Update(d.meta, [po3_phase |-> Get(f, "po3_phase", "ACCUMULATION")])
        meta2 == IF "data_provider" \in DOMAIN meta1 THEN meta1
                 ELSE Update(meta1, [data_provider |-> Get(f, "data_provider", "unknown")])
        meta3 == IF "used_ticker" \in DOMAIN meta2 THEN meta2
                 ELSE Update(meta2, [used_ticker |-> Get(f, "used_ticker", d.symbol)])
    IN  [d EXCEPT !.meta = meta3]

SNAPSHOT_INTERVAL_SECS == 30

CACHE_TTL == 60

(* seconds between two runs of the script that rebuild the snapshot *)
RebuildStep == 1800

(* the longest session followed, in seconds *)
SessionElapsed == 5400

CacheFresh(t) == snapshot_cache # EmptyDict /\ t - snapshot_cache.ts < CACHE_TTL

(* the script from update_portfolio to maybe_send_trade_alerts, on what    *)
(* build_snapshot returned                                                 *)
Deliver(ds, fbs, t) ==
    \E oks \in [ SymbolsOf(profiles) -> BOOLEAN ] :
      \E al \in { maybe_send_trade_alerts(ds,
                      [ last_action |-> last_alerted_action, last_ts |-> last_alerted_ts,
                        log |-> alert_log ],
                      t, ALERT_MODE3, ALERT_HIGHCONF, oks) } :
        /\ portfolio' = update_portfolio(portfolio, ds, fbs, t)
        /\ decisions' = ds
        /\ factors_by_symbol' = fbs
        /\ last_alerted_action' = al.last_action
        /\ last_alerted_ts' = al.last_ts
        /\ alert_log' = al.log

InitSession ==
    /\ profiles = SessionProfiles
    /\ factors_by_symbol = EmptyDict
    /\ candles = EmptyDict
    /\ gated = <<>>
    /\ sized = <<>>
    /\ proposed = <<>>
    /\ decisions = <<>>
    /\ last_fired = EmptyDict
    /\ last_fired_ts = EmptyDict
    /\ prev_fired = EmptyDict
    /\ prev_fired_ts = EmptyDict
    /\ now = StartTime
    /\ pc = "idle"
    /\ ALERT_MODE3 \in BOOLEAN
    /\ ALERT_HIGHCONF \in BOOLEAN
    /\ last_alerted_action = EmptyDict
    /\ last_alerted_ts = EmptyDict
    /\ alert_log = <<>>
    /\ sent_alerts = {}
    /\ tg_last = EmptyDict
    /\ once_log = <<>>
    /\ fvg_ctx = EmptyDict
    /\ portfolio = init_portfolio_state
    /\ snapshot_cache = EmptyDict

(* a run of the script `step` seconds on with the cache entry expired:     *)
(* build_snapshot runs run_decisions on new Factor Sets drawn from menu    *)
RebuildWith(menu, step, elapsed) ==
    /\ now + step <= StartTime + elapsed
    /\ ~CacheFresh(now + step)
    /\ now' = now + step
    /\ \E fbs \in [ SymbolsOf(profiles) -> UNION { menu[s] : s \in SymbolsOf(profiles) } ] :
         /\ \A s \in SymbolsOf(profiles) : fbs[s] \in menu[s]
         /\ \E r \in { run_decisions(profiles, fbs, last_fired, last_fired_ts, now + step) } :
            \E ds \in { [ i \in DOMAIN r.acc.decisions |->
                            InjectMeta(r.acc.decisions[i], Get(fbs, r.acc.decisions[i].symbol, EmptyDict)) ] } :
              /\ proposed' = r.acc.proposed
              /\ gated' = r.acc.gated
              /\ sized' = r.acc.sized
              /\ last_fired' = r.lf
              /\ last_fired_ts' = r.lts
              /\ prev_fired' = last_fired
              /\ prev_fired_ts' = last_fired_ts
              /\ snapshot_cache' = [ ts |-> now + step, decisions |-> ds, factors_by_symbol |-> fbs ]
              /\ Deliver(ds, fbs, now + step)
    /\ UNCHANGED <<profiles, candles, ALERT_MODE3, ALERT_HIGHCONF>>

RebuildCycle ==
    /\ pc = "idle"
    /\ RebuildWith(SessionFactors, RebuildStep, SessionElapsed)
    /\ UNCHANGED <<pc, sent_alerts, tg_last, once_log, fvg_ctx>>

(* a run of the script SNAPSHOT_INTERVAL_SECS after a rebuild: the cache   *)
(* entry is younger than its lifetime and build_snapshot returns it        *)
CachedCycle ==
    /\ pc = "idle"
    /\ now + SNAPSHOT_INTERVAL_SECS <= StartTime + SessionElapsed
    /\ CacheFresh(now + SNAPSHOT_INTERVAL_SECS)
    /\ now' = now + SNAPSHOT_INTERVAL_SECS
    /\ Deliver(snapshot_cache.decisions, snapshot_cache.factors_by_symbol, now + SNAPSHOT_INTERVAL_SECS)
    /\ UNCHANGED <<profiles, candles, pc, gated, sized, proposed, last_fired, last_fired_ts,
                   prev_fired, prev_fired_ts, snapshot_cache,
                   ALERT_MODE3, ALERT_HIGHCONF, sent_alerts, tg_last, once_log, fvg_ctx>>

NextSession == RebuildCycle \/ CachedCycle

SpecSession == InitSession /\ [][NextSession]_vars

---------------------------------------------------------------------------
(* Both alert paths on one session: refresh cycles ten minutes apart for   *)
(* one symbol, and a caller that hands the Decisions of the latest cycle   *)
(* to send_trade_alert_once.                                               *)

AlertFactors ==
    [ EURUSD |-> { EmptyDict,
                   SniperSignal("bullish"),
                   SniperSignal("bearish"),
                   WeakSniperSignal("bullish") } ]

AlertsStep == 600

(* the longest session followed, in seconds *)
AlertsElapsed == 2400

InitAlerts ==
    /\ profiles = <<"EURUSD">>
    /\ factors_by_symbol = EmptyDict
    /\ candles = EmptyDict
    /\ gated = <<>>
    /\ sized = <<>>
    /\ proposed = <<>>
    /\ decisions = <<>>
    /\ last_fired = EmptyDict
    /\ last_fired_ts = EmptyDict
    /\ prev_fired = EmptyDict
    /\ prev_fired_ts = EmptyDict
    /\ now = StartTime
    /\ pc = "idle"
    /\ ALERT_MODE3 \in BOOLEAN
    /\ ALERT_HIGHCONF \in BOOLEAN
    /\ last_alerted_action = EmptyDict
    /\ last_alerted_ts = EmptyDict
    /\ alert_log = <<>>
    /\ sent_alerts = {}
    /\ tg_last = EmptyDict
    /\ once_log = <<>>
    /\ fvg_ctx = EmptyDict
    /\ portfolio = init_portfolio_state
    /\ snapshot_cache = EmptyDict

AlertsCycle ==
    /\ RebuildWith(AlertFactors, AlertsStep, AlertsElapsed)
    /\ pc' = "fresh"
    /\ UNCHANGED <<sent_alerts, tg_last, once_log, fvg_ctx>>

RECURSIVE OnceLoop(_, _, _, _, _, _, _)
OnceLoop(ds, i, ss, t, arm_alerts, news_events, oks) ==
    IF i > Len(ds) THEN ss
    ELSE \* one call, then the rest of the list
         LET next == send_trade_alert_once(ds[i], ss, t, arm_alerts, news_events, oks[ds[i].symbol])
         IN  OnceLoop(ds, i + 1, next, t, arm_alerts, news_events, oks)

(* send_trade_alert_once called on each Decision of the latest cycle *)
OnceCycle ==
    /\ pc = "fresh"
    /\ pc' = "idle"
    /\ \E arm_alerts \in BOOLEAN, news_events \in BOOLEAN, oks \in [ SymbolsOf(profiles) -> BOOLEAN ] :
         \E ss \in { OnceLoop(decisions, 1,
                              [ sent_alerts |-> sent_alerts, tg_last |-> tg_last, log |-> once_log ],
                              now, arm_alerts, news_events, oks) } :
            /\ sent_alerts' = ss.sent_alerts
            /\ tg_last' = ss.tg_last
            /\ once_log' = ss.log
    /\ UNCHANGED <<profiles, candles, factors_by_symbol, gated, sized, proposed, decisions,
                   last_fired, last_fired_ts, prev_fired, prev_fired_ts, now,
                   ALERT_MODE3, ALERT_HIGHCONF, last_alerted_action, last_alerted_ts, alert_log,
                   portfolio, snapshot_cache, fvg_ctx>>

NextAlerts == AlertsCycle \/ OnceCycle

SpecAlerts == InitAlerts /\ [][NextAlerts]_vars

---------------------------------------------------------------------------
(* engine/fvg.py.  A zone is the record of the FVG dataclass; start and    *)
(* end are index labels, here the positions of the bars in df.  Scores are *)
(* exact quotients: proximity over 6 * last_price, freshness over 60, size *)
(* over last_price, life in halves, the zone score over 7200 * last_price, *)
(* fvg_score in thousandths.                                               *)

FVG(type, top, bottom, start, end) ==
    [type |-> type, top |-> top, bottom |-> bottom, start |-> start, end |-> end]

(* the loop of detect_fvgs over d = df.tail(lookback), whose first bar has *)
(* label off + 1                                                           *)
RECURSIVE GapsFrom(_, _, _)
GapsFrom(d, off, i) ==
    IF i > Len(d) THEN <<>>
    ELSE (IF d[i - 2].high < d[i].low
            THEN << FVG("bull", d[i].low, d[i - 2].high, off + i - 2, off + i) >>
            ELSE <<>>)
         \o (IF d[i - 2].low > d[i].high
               THEN << FVG("bear", d[i - 2].low, d[i].high, off + i - 2, off + i) >>
               ELSE <<>>)
         \o GapsFrom(d, off, i + 1)

detect_fvgs(df, lookback) ==
    LET d == tail(df, lookback)
    IN  IF Len(d) < 5 THEN <<>> ELSE GapsFrom(d, Len(df) - Len(d), 3)

_zone_bounds(z) == [lo |-> Min(z.top, z.bottom), hi |-> Max(z.top, z.bottom)]

(* d2 = df.loc[z.start:] holds the bars from the one labelled z.start on,  *)
(* that bar included                                                       *)
_is_touched_or_filled(df, z) ==
    LET b  == _zone_bounds(z)
        d2 == SubSeq(df, z.start, Len(df))
    IN  IF d2 = <<>> THEN [touched |-> FALSE, filled |-> FALSE]
        ELSE IF z.type = "bull"
          THEN [touched |-> LowMin(d2) <= b.hi, filled |-> LowMin(d2) <= b.lo]
        ELSE [touched |-> HighMax(d2) >= b.lo, filled |-> HighMax(d2) >= b.hi]

(* a weight that grows with age *)
_freshness_weight_Growing(age_bars) == Min(60, age_bars)

(* max(0.0, 1.0 - age_bars / 60.0), in sixtieths *)
_freshness_weight(age_bars) == Max(0, 60 - age_bars)

(* proximity of last_price to the zone, over 6 * last_price; the pad is    *)
(* 30 bps of last_price                                                    *)
ZoneProximity(z, last_price) ==
    LET b      == _zone_bounds(z)
        inside == /\ 1000 * b.lo - 3 * last_price <= 1000 * last_price
                  /\ 1000 * last_price <= 1000 * b.hi + 3 * last_price
        dist   == Min(Abs(last_price - b.lo), Abs(last_price - b.hi))
    IN  [ inside |-> inside,
          prox   |-> IF inside THEN 6 * last_price
                     ELSE Max(0, 6 * last_price - 1000 * dist) ]

(* min(1.0, gap / last_price * 200), over last_price *)
ZoneSize(z, last_price) ==
    LET b == _zone_bounds(z) IN Min(last_price, 200 * Max(0, b.hi - b.lo))

(* the age of a zone in bars, counted back from the last bar of df *)
ZoneAge(df, z) == Len(df) - z.start

(* the life multiplier in halves: filled 0.0, touched 0.5, else 1.0 *)
ZoneLife(df, z) ==
    LET tf == _is_touched_or_filled(df, z)
    IN  IF tf.filled THEN 0 ELSE IF tf.touched THEN 1 ELSE 2

(* ((1.2 * prox) + (0.9 * fresh) + (0.9 * size)) * life, over              *)
(* 7200 * last_price                                                       *)
ZoneScore(prox, age_bars, size, life, last_price) ==
    (12 * 60 * prox + 9 * 6 * last_price * _freshness_weight(age_bars) + 9 * 360 * size) * life

FVG_LOOKBACK == 160

FVG_MAX_SHOW == 3

RECURSIVE BestScore(_, _, _, _, _)
BestScore(df, fvgs, i, last_price, best) ==
    IF i > Len(fvgs) THEN best
    ELSE LET z     == fvgs[i]
             score == ZoneScore(ZoneProximity(z, last_price).prox, ZoneAge(df, z),
                                ZoneSize(z, last_price), ZoneLife(df, z), last_price)
         IN  BestScore(df, fvgs, i + 1, last_price, Max(best, score))

compute_fvg_context(df, lookback, max_show) ==
    LET out == [near_fvg |-> FALSE, fvg_score |-> 0, fvgs |-> <<>>]
    IN  IF Len(df) < 10 THEN out
        ELSE LET found == detect_fvgs(df, lookback)
             IN  IF found = <<>> THEN out
                 ELSE LET fvgs       == tail(found, max_show)
                          last_price == df[Len(df)].close
                      IN  [ near_fvg  |-> \E i \in DOMAIN fvgs : ZoneProximity(fvgs[i], last_price).inside,
                            fvg_score |-> RoundHalfEven(5 * BestScore(df, fvgs, 1, last_price, 0),
                                                        36 * last_price),
                            fvgs      |-> fvgs ]

(* 15m frames with one gap.  Seven bars around 1000, a wide bar, and the    *)
(* bar that leaves the gap between 1002 and 1007; then age - 2 bars around *)
(* 1010, of which the first may come back into the gap or through it and   *)
(* the last sets the close.  The bearish frames are the mirror image.      *)
GapAges == {2, 3, 10, 30, 59, 60, 63}

GapAfter == {"stay", "enter", "fill"}

GapCloses == {"near", "off", "gone"}

GapFrame(age, after, close) ==
    LET n == age + 7
        Shape(i) ==
            IF i <= 7 THEN Bar(1000, 1002, 998, 1000)
            ELSE IF i = 8 THEN Bar(1000, 1012, 999, 1010)
            ELSE IF i = 9 THEN Bar(1010, 1013, 1007, 1010)
            ELSE IF i = 10 /\ after = "enter" THEN Bar(1010, 1013, 1005, 1010)
            ELSE IF i = 10 /\ after = "fill" THEN Bar(1010, 1013, 1000, 1010)
            ELSE Bar(1010, 1013, 1008, 1010)
        Closing(b) ==
            IF close = "near" THEN b
            ELSE IF close = "off" THEN [b EXCEPT !.close = 1012]
            ELSE [b EXCEPT !.high = 1030, !.close = 1025]
    IN  [ i \in 1..n |-> IF i = n THEN Closing(Shape(i)) ELSE Shape(i) ]

Mirror(df) ==
    [ i \in DOMAIN df |-> Bar(2000 - df[i].open, 2000 - df[i].low, 2000 - df[i].high,
                              2000 - df[i].close) ]

(* twelve bars that each leave a gap to the bar two before *)
Staircase == [ i \in 1..12 |-> Bar(1000 + 20 * i, 1005 + 20 * i, 995 + 20 * i, 1000 + 20 * i) ]

FvgFrames ==
    { <<>>, [ i \in 1..12 |-> Bar(1000, 1002, 998, 1000) ], Staircase, Mirror(Staircase) }
    \cup { GapFrame(age, after, close) : age \in GapAges, after \in GapAfter, close \in GapCloses }
    \cup { Mirror(GapFrame(age, after, close)) :
             age \in GapAges, after \in GapAfter, close \in GapCloses }

InitFvg ==
    /\ profiles = <<"EURUSD">>
    /\ SessionStart
    /\ \E df \in FvgFrames : candles = [ EURUSD |-> [df |-> df, htf_df |-> <<>>] ]
    /\ factors_by_symbol = EmptyDict
    /\ gated = <<>>
    /\ sized = <<>>
    /\ proposed = <<>>
    /\ decisions = <<>>
    /\ last_fired = EmptyDict
    /\ last_fired_ts = EmptyDict
    /\ prev_fired = EmptyDict
    /\ prev_fired_ts = EmptyDict
    /\ now = StartTime
    /\ pc = "ready"

(* app.py : build_snapshot, the compute_fvg_context call on the 15m frame *)
FvgCycle ==
    /\ pc = "ready"
    /\ fvg_ctx' = compute_fvg_context(candles["EURUSD"].df, FVG_LOOKBACK, FVG_MAX_SHOW)
    /\ pc' = "idle"
    /\ UNCHANGED <<profiles, candles, factors_by_symbol, gated, sized, proposed, decisions,
                   last_fired, last_fired_ts, prev_fired, prev_fired_ts, now,
                   ALERT_MODE3, ALERT_HIGHCONF, last_alerted_action, last_alerted_ts, alert_log,
                   sent_alerts, tg_last, once_log, portfolio, snapshot_cache>>

NextFvg == FvgCycle

SpecFvg == InitFvg /\ [][NextFvg]_vars

---------------------------------------------------------------------------
(* Properties.  Calls == the profile positions of the latest call;         *)
(* FactorsAt(i) is the Factor Set run_decisions read for position i.       *)

Calls == DOMAIN decisions

FactorsAt(i) == Get(factors_by_symbol, profiles[i], EmptyDict)

Key(f, k) == k \in DOMAIN f /\ f[k]

(* the confidence table of the scorer, read off a Factor Set *)
TableScore(f) ==
    LET w(k, n) == IF Key(f, k) THEN n ELSE 0
        entry   == IF Key(f, "entry_confirmed_sniper") \/ Key(f, "entry_confirmed_continuation")
                      \/ Key(f, "entry_confirmed") THEN 10 ELSE 0
        sum     == w("po3_active", 20) + w("liquidity_sweep", 20) + w("agreement_reclaim", 10)
                   + w("mss_shift", 20) + entry + w("session_alignment", 10)
                   + w("htf_alignment", 10) + w("distribution_active", 5)
    IN  IF sum > 100 THEN 100 ELSE sum

LeanOf(f) == IF "po3_bias" \in DOMAIN f THEN f.po3_bias
             ELSE IF "bias" \in DOMAIN f THEN f.bias ELSE "neutral"

PhaseOf(f) == IF "po3_phase" \in DOMAIN f THEN f.po3_phase ELSE "ACCUMULATION"

RROf(f) == IF "rr" \in DOMAIN f THEN f.rr ELSE 0

SniperConfirmed(f) ==
    IF "entry_confirmed_sniper" \in DOMAIN f THEN f.entry_confirmed_sniper
    ELSE Key(f, "entry_confirmed")

ContinuationConfirmed(f) ==
    IF "entry_confirmed_continuation" \in DOMAIN f THEN f.entry_confirmed_continuation
    ELSE Key(f, "entry_confirmed")

(* all sniper preconditions of the gate, without the confidence threshold *)
SniperPreconditions(f) ==
    /\ PhaseOf(f) \in {"ACCUMULATION", "MANIPULATION"}
    /\ Key(f, "accumulation_detected")
    /\ Key(f, "liquidity_sweep")
    /\ Key(f, "agreement_reclaim")
    /\ Key(f, "mss_shift")
    /\ SniperConfirmed(f)
    /\ ("session_valid_sniper" \in DOMAIN f => f.session_valid_sniper)
    /\ RROf(f) >= 20
    /\ LeanOf(f) \in {"bullish", "bearish"}

(* all continuation preconditions of the gate, without the threshold *)
ContinuationPreconditions(f) ==
    /\ PhaseOf(f) = "DISTRIBUTION"
    /\ Key(f, "distribution_active")
    /\ (IF "structure_ok_continuation" \in DOMAIN f THEN f.structure_ok_continuation
        ELSE Key(f, "structure_ok"))
    /\ ContinuationConfirmed(f)
    /\ ("session_valid_continuation" \in DOMAIN f => f.session_valid_continuation)
    /\ RROf(f) >= 20
    /\ LeanOf(f) \in {"bullish", "bearish"}

SniperQualified(f) ==
    /\ SniperPreconditions(f)
    /\ TableScore(f) + (IF Key(f, "sniper_clean") THEN 10 ELSE 0) >= 80

ContinuationQualified(f) ==
    /\ ContinuationPreconditions(f)
    /\ TableScore(f) >= 65

(* C1: a Decision returned by the pipeline is BUY NOW / SELL NOW only if   *)
(* its Factor Set meets the sniper preconditions with confidence + bonus   *)
(* >= 8.0, or the continuation preconditions with confidence >= 6.5.       *)
C1_FireOnlyFromSetups ==
    \A i \in Calls :
        decisions[i].action \in {"BUY NOW", "SELL NOW"}
            => SniperQualified(FactorsAt(i)) \/ ContinuationQualified(FactorsAt(i))

(* C2: every BUY NOW / SELL NOW of decide_from_factors and of              *)
(* run_decisions comes from a Factor Set with rr >= 2.0.                   *)
C2_FireImpliesRRFloor ==
    \A i \in Calls :
        /\ gated[i].action \in {"BUY NOW", "SELL NOW"} => RROf(FactorsAt(i)) >= 20
        /\ decisions[i].action \in {"BUY NOW", "SELL NOW"} => RROf(FactorsAt(i)) >= 20

(* C3 as stated: a Factor Set whose bias field is neutral never yields     *)
(* BUY NOW / SELL NOW, whatever po3_bias says.                             *)
C3_NeutralBiasFieldNeverFires ==
    \A i \in Calls :
        ("bias" \in DOMAIN FactorsAt(i) /\ FactorsAt(i).bias = "neutral")
            => /\ gated[i].action \notin {"BUY NOW", "SELL NOW"}
               /\ decisions[i].action \notin {"BUY NOW", "SELL NOW"}

(* C3 amended: a Factor Set whose lean (po3_bias, or bias when po3_bias is *)
(* absent) is neutral never yields BUY NOW / SELL NOW, neither from        *)
(* decide_from_factors nor from run_decisions.                             *)
C3_NeutralLeanNeverFires ==
    \A i \in Calls :
        LeanOf(FactorsAt(i)) = "neutral"
            => /\ gated[i].action \notin {"BUY NOW", "SELL NOW"}
               /\ decisions[i].action \notin {"BUY NOW", "SELL NOW"}

(* a neutral lean with every other sniper input met and a breakout flagged *)
C3_Witness ==
    \E i \in Calls :
        LET f == FactorsAt(i) IN
        /\ LeanOf(f) = "neutral"
        /\ Key(f, "liquidity_sweep") /\ Key(f, "mss_shift") /\ Key(f, "agreement_reclaim")
        /\ Key(f, "accumulation_detected") /\ SniperConfirmed(f)
        /\ PhaseOf(f) = "ACCUMULATION" /\ RROf(f) >= 30
        /\ Key(f, "structure_ok") /\ Key(f, "bull_break") /\ Key(f, "bear_break")
        /\ f.volatility_risk = "normal"
        /\ decisions[i].action = "WATCH"

(* the cooldown step of the latest call suppressed position i: the call   *)
(* proposed the action it found recorded, less than `window` seconds after *)
(* the recorded firing                                                     *)
RepeatWithin(i, window) ==
    LET sym == profiles[i] IN
    /\ proposed[i].action \in {"BUY NOW", "SELL NOW"}
    /\ sym \in DOMAIN prev_fired
    /\ prev_fired[sym] = proposed[i].action
    /\ now - prev_fired_ts[sym] < window

C5_RecordWrittenOnlyOnPass ==
    /\ DOMAIN last_fired = DOMAIN last_fired_ts
    /\ (decisions = <<>> /\ pc = "idle") => last_fired = <<>>
    /\ \A i \in Calls :
          LET sym == profiles[i] IN
          IF decisions[i].action \in {"BUY NOW", "SELL NOW"}
            THEN /\ sym \in DOMAIN last_fired
                 /\ last_fired[sym] = decisions[i].action
                 /\ last_fired_ts[sym] = now
            ELSE /\ (sym \in DOMAIN last_fired) = (sym \in DOMAIN prev_fired)
                 /\ sym \in DOMAIN prev_fired =>
                       /\ last_fired[sym] = prev_fired[sym]
                       /\ last_fired_ts[sym] = prev_fired_ts[sym]

(* a suppressed repeat that left the ten-minute-old record in place *)
C5_Witness ==
    \E i \in Calls :
        /\ RepeatWithin(i, 1800)
        /\ decisions[i].commentary = <<"Cooldown gate: already fired recently">>
        /\ last_fired_ts[profiles[i]] = now - 600
        /\ last_fired[profiles[i]] = proposed[i].action

(* the latest call proposed, inside the window, the opposite of the        *)
(* recorded action                                                         *)
ReversalWithin(i, window) ==
    LET sym == profiles[i] IN
    /\ proposed[i].action \in {"BUY NOW", "SELL NOW"}
    /\ sym \in DOMAIN prev_fired
    /\ prev_fired[sym] \in {"BUY NOW", "SELL NOW"}
    /\ prev_fired[sym] # proposed[i].action
    /\ now - prev_fired_ts[sym] < window

(* C6: a BUY NOW / SELL NOW opposite to the last fired action passes       *)
(* unchanged inside the cooldown window and the record becomes             *)
(* (new action, now).                                                      *)
C6_ReversalPasses ==
    \A i \in Calls :
        ReversalWithin(i, 1800)
            => /\ decisions[i] = proposed[i]
               /\ last_fired[profiles[i]] = proposed[i].action
               /\ last_fired_ts[profiles[i]] = now

(* a SELL NOW ten minutes after a BUY NOW *)
C6_Witness ==
    \E i \in Calls :
        /\ ReversalWithin(i, 1800)
        /\ prev_fired[profiles[i]] = "BUY NOW"
        /\ now - prev_fired_ts[profiles[i]] = 600
        /\ decisions[i].action = "SELL NOW"

(* C7: a Decision the cooldown throttle suppresses has action WAIT and     *)
(* mode "standby", whatever mode was proposed.                             *)
C7_SuppressedIsStandby ==
    \A i \in Calls :
        RepeatWithin(i, 1800)
            => decisions[i].action = "WAIT" /\ decisions[i].mode = "standby"

(* C8: a suppressed Decision keeps trade_plan, meta and score of the       *)
(* proposed Decision.                                                      *)
C8_SuppressedKeepsPlan ==
    \A i \in Calls :
        RepeatWithin(i, 1800)
            => /\ decisions[i].trade_plan = proposed[i].trade_plan
               /\ decisions[i].meta = proposed[i].meta
               /\ decisions[i].score = proposed[i].score

(* C9: a returned BUY NOW / SELL NOW has mode "sniper" or "continuation"   *)
(* and a trade_plan with entry, stop, tp1, tp2 and rr of its Factor Set.   *)
C9_FiredCarriesPlan ==
    \A i \in Calls :
        decisions[i].action \in {"BUY NOW", "SELL NOW"}
            => /\ decisions[i].mode \in {"sniper", "continuation"}
               /\ {"entry", "stop", "tp1", "tp2", "rr"} \subseteq DOMAIN decisions[i].trade_plan
               /\ \A k \in {"entry", "stop", "tp1", "tp2", "rr"} :
                     k \in DOMAIN FactorsAt(i) /\ decisions[i].trade_plan[k] = FactorsAt(i)[k]

(* C10: rr < 2.0 makes decide_from_factors return WAIT, "standby", an      *)
(* empty trade plan and the RR-minimum commentary, for every confidence    *)
(* and every combination of the other factors.                             *)
C10_LowRRWaits ==
    \A i \in DOMAIN gated :
        RROf(FactorsAt(i)) < 20
            => /\ gated[i].action = "WAIT"
               /\ gated[i].mode = "standby"
               /\ DOMAIN gated[i].trade_plan = {}
               /\ gated[i].commentary[1] = "RR below minimum 2.0 requirement."

(* rr = 1.5 with every sniper input met and the full confidence *)
C10_Witness ==
    \E i \in DOMAIN gated :
        LET f == FactorsAt(i) IN
        /\ RROf(f) = 15
        /\ PhaseOf(f) \in {"ACCUMULATION", "MANIPULATION"}
        /\ Key(f, "accumulation_detected") /\ Key(f, "liquidity_sweep")
        /\ Key(f, "agreement_reclaim") /\ Key(f, "mss_shift")
        /\ SniperConfirmed(f) /\ Key(f, "session_valid_sniper")
        /\ LeanOf(f) = "bearish"
        /\ TableScore(f) = 100
        /\ gated[i].action = "WAIT"
        /\ gated[i].confidence = 100

DirectionOf(f) == IF LeanOf(f) = "bullish" THEN "BUY NOW" ELSE "SELL NOW"

(* C11: with rr >= 2.0, decide_from_factors fires the sniper setup exactly *)
(* when phase is ACCUMULATION or MANIPULATION, accumulation, sweep,        *)
(* agreement reclaim, MSS, sniper entry confirmation and the sniper        *)
(* session flag are all true, the bias is directional and confidence +     *)
(* clean bonus >= 8.0; it fires BUY NOW for bullish, SELL NOW for bearish. *)
C11_SniperFiresExactly ==
    \A i \in DOMAIN gated :
        LET f == FactorsAt(i) IN
        RROf(f) >= 20 =>
            /\ (gated[i].mode = "sniper") = SniperQualified(f)
            /\ gated[i].mode = "sniper" => gated[i].action = DirectionOf(f)

(* a bearish sniper that reaches 8.0 only through the clean bonus *)
C11_Witness ==
    \E i \in DOMAIN gated :
        LET f == FactorsAt(i) IN
        /\ SniperPreconditions(f)
        /\ LeanOf(f) = "bearish"
        /\ TableScore(f) = 70 /\ Key(f, "sniper_clean")
        /\ gated[i].mode = "sniper"
        /\ gated[i].action = "SELL NOW"

(* C12: with rr >= 2.0 and no sniper fire, decide_from_factors fires the   *)
(* continuation setup exactly when phase is DISTRIBUTION, distribution is  *)
(* active, continuation structure, continuation entry confirmation and the *)
(* continuation session flag are true, the bias is directional and the     *)
(* base confidence is >= 6.5; mode "continuation", direction of the bias.  *)
C12_ContinuationFiresExactly ==
    \A i \in DOMAIN gated :
        LET f == FactorsAt(i) IN
        (RROf(f) >= 20 /\ gated[i].mode # "sniper") =>
            /\ (gated[i].mode = "continuation") = ContinuationQualified(f)
            /\ gated[i].mode = "continuation" => gated[i].action = DirectionOf(f)

(* a bullish continuation at confidence 6.5, and the refusal one notch     *)
(* lower is covered by the equivalence                                     *)
C12_Witness ==
    \E i \in DOMAIN gated :
        LET f == FactorsAt(i) IN
        /\ ContinuationPreconditions(f)
        /\ LeanOf(f) = "bullish"
        /\ TableScore(f) = 65
        /\ Key(f, "sniper_clean")
        /\ gated[i].mode = "continuation"
        /\ gated[i].action = "BUY NOW"

(* decide_from_factors reached its standby return *)
FellThrough(i) ==
    LET f == FactorsAt(i) IN
    /\ RROf(f) >= 20
    /\ ~SniperQualified(f)
    /\ ~ContinuationQualified(f)

SweepMsg == "Waiting for valid liquidity sweep (Phase 2 manipulation)."

MssMsg == "Sweep detected; waiting for 15m MSS and displacement confirmation."

SniperEntryMsg ==
    "PO3 structure present; waiting for SNIPER entry confirmation (wick->expansion OR CISD)."

ContinuationEntryMsg ==
    "Distribution active; waiting for CONTINUATION entry confirmation (wick->expansion)."

TrendMsg == "Trend developing; waiting for MSS/confirmation (not forcing sweep)."

NoNarrativeMsg == "No clean PO3 narrative yet (no forced trades)."

(* the message the four-step order of the claim selects, "" when none of   *)
(* its steps applies                                                       *)
FirstUnmet(f) ==
    IF ~Key(f, "liquidity_sweep") THEN SweepMsg
    ELSE IF ~Key(f, "mss_shift") THEN MssMsg
    ELSE IF ~SniperConfirmed(f) THEN SniperEntryMsg
    ELSE IF PhaseOf(f) = "DISTRIBUTION" /\ Key(f, "distribution_active")
            /\ ~ContinuationConfirmed(f) THEN ContinuationEntryMsg
    ELSE ""

TrendDeveloping(f) ==
    /\ PhaseOf(f) = "ACCUMULATION"
    /\ IF "structure_ok_continuation" \in DOMAIN f THEN f.structure_ok_continuation
       ELSE Key(f, "structure_ok")

(* C13 as stated: a standby fall-through is WATCH / "standby" and its      *)
(* commentary is the message of the first unmet precondition in the order  *)
(* sweep, MSS, sniper entry confirmation, continuation confirmation.       *)
C13_CommentaryByFirstUnmet ==
    \A i \in DOMAIN gated :
        FellThrough(i) =>
            /\ gated[i].action = "WATCH"
            /\ gated[i].mode = "standby"
            /\ FirstUnmet(FactorsAt(i)) # "" =>
                  gated[i].commentary[1] = FirstUnmet(FactorsAt(i))

(* C13 amended: a standby fall-through is WATCH / "standby"; in phase      *)
(* ACCUMULATION with continuation structure the commentary is the          *)
(* trend-developing message, otherwise it is the message of the first      *)
(* unmet precondition in the stated order, and the no-clean-narrative      *)
(* message when none is unmet.                                             *)
C13_CommentaryAfterTrendBranch ==
    \A i \in DOMAIN gated :
        LET f == FactorsAt(i) IN
        FellThrough(i) =>
            /\ gated[i].action = "WATCH"
            /\ gated[i].mode = "standby"
            /\ gated[i].commentary[1] =
                  IF TrendDeveloping(f) THEN TrendMsg
                  ELSE IF FirstUnmet(f) # "" THEN FirstUnmet(f)
                  ELSE NoNarrativeMsg

(* accumulation with structure and no sweep: the trend message wins *)
C13_Witness ==
    \E i \in DOMAIN gated :
        LET f == FactorsAt(i) IN
        /\ FellThrough(i)
        /\ TrendDeveloping(f)
        /\ ~Key(f, "liquidity_sweep")
        /\ gated[i].commentary = <<TrendMsg>>

(* C14: confidence and score of the Decision of decide_from_factors, the   *)
(* scorer's total and the sniper-check value confidence + bonus all lie in *)
(* [0, 10], whichever signals are true.                                    *)
C14_ConfidenceInRange ==
    \A i \in DOMAIN gated :
        /\ gated[i].confidence \in 0..100
        /\ gated[i].score \in 0..100
        /\ gated[i].meta.sniper_confidence \in 0..100

(* every signal of the table true (10.5 before the clamp) plus the bonus *)
C14_Witness ==
    \E i \in DOMAIN gated :
        LET f == FactorsAt(i) IN
        /\ \A k \in {"po3_active", "liquidity_sweep", "agreement_reclaim", "mss_shift",
                     "entry_confirmed_sniper", "session_alignment", "htf_alignment",
                     "distribution_active", "sniper_clean"} : Key(f, k)
        /\ gated[i].confidence = 100
        /\ gated[i].meta.sniper_confidence = 100

DifferOnlyIn(k) ==
    /\ Len(profiles) = 2
    /\ DOMAIN gated = {1, 2}
    /\ FactorsAt(2) = Toggle(FactorsAt(1), k)

(* C16: for two Factor Sets that differ only in sniper_clean the Decisions *)
(* of decide_from_factors have the same confidence and score, equal to the *)
(* scorer's total: the +1.0 bonus never shows in confidence or score.      *)
C16_BonusNeverLeaks ==
    DifferOnlyIn("sniper_clean") =>
        /\ gated[1].confidence = gated[2].confidence
        /\ gated[1].score = gated[2].score
        /\ gated[1].confidence = gated[1].score
        /\ gated[1].confidence = build_score_breakdown(FactorsAt(1)).total_score

(* a pair the bonus separates: 7.5 fires the sniper only with the bonus *)
C16_Witness ==
    /\ DifferOnlyIn("sniper_clean")
    /\ gated[1].confidence = 75
    /\ gated[2].confidence = 75
    /\ {gated[1].mode, gated[2].mode} = {"sniper", "standby"}

(* C17: for two Factor Sets that differ only in news_block,                *)
(* decide_from_factors and run_decisions return the same action, mode,     *)
(* confidence and trade_plan.                                              *)
C17_NewsNeverDecides ==
    DifferOnlyIn("news_block") =>
        /\ \A k \in {"action", "mode", "confidence", "trade_plan"} :
              /\ gated[1][k] = gated[2][k]
              /\ decisions[1][k] = decisions[2][k]

(* a pair that fires the sniper with and without the news warning *)
C17_Witness ==
    /\ DifferOnlyIn("news_block")
    /\ gated[1].mode = "sniper" /\ gated[2].mode = "sniper"
    /\ gated[1].commentary # gated[2].commentary
    /\ decisions[1].action = "BUY NOW" /\ decisions[2].action = "BUY NOW"


---------------------------------------------------------------------------
(* The refresh cycle on fetched bars (SpecSnapshot).                       *)

(* the 15m and 4h series fetched for the symbol at profile position i *)
BarsAt(i) == candles[profiles[i]].df

HtfBarsAt(i) == candles[profiles[i]].htf_df

Completed == pc = "idle"

(* Scenario B: the last bar takes out the prior high, closes back under it *)
(* and under the swing low, and confirms the bearish entry                 *)
ScenarioB(df) ==
    /\ Len(df) >= MIN_BARS
    /\ detect_sweep(df).above
    /\ detect_mss(df).bear
    /\ detect_entry_confirmation(df, "bearish", 35).ok

(* C18: for bars with a sweep above, an MSS break downward and a           *)
(* qualifying bearish entry confirmation, confidence >= 8.0 and no earlier *)
(* firing for the symbol, the refresh cycle emits SELL NOW with mode       *)
(* "sniper" and trade_plan.rr = 2.5.                                       *)
C18_ScenarioBSellsSniper ==
    \A i \in Calls :
        ( /\ Completed
          /\ ScenarioB(BarsAt(i))
          /\ decisions[i].confidence >= 80
          /\ profiles[i] \notin DOMAIN prev_fired )
        => /\ decisions[i].action = "SELL NOW"
           /\ decisions[i].mode = "sniper"
           /\ Get(decisions[i].trade_plan, "rr", 0) = 25

(* Scenario A: at least MIN_BARS bars that all share one high and one low, *)
(* the band no wider than 0.05% of the last close                          *)
FlatBars(df) ==
    /\ Len(df) >= MIN_BARS
    /\ \A k \in DOMAIN df : df[k].high = df[1].high /\ df[k].low = df[1].low
    /\ (df[1].high - df[1].low) * 10000 <= df[Len(df)].close * 5

FlatFactorSet(f) ==
    /\ ~f.structure_ok
    /\ ~f.liquidity_sweep
    /\ f.po3_phase = "ACCUMULATION"

MentionsSweep(commentary) ==
    \E k \in DOMAIN commentary :
        commentary[k] \in { SweepMsg, MssMsg, TrendMsg,
                            "): accumulation -> sweep -> agreement reclaim -> MSS." }

(* C19 as stated: flat bars give structure_ok false, liquidity_sweep       *)
(* false, phase ACCUMULATION, and a WATCH Decision whose commentary        *)
(* mentions the sweep.                                                     *)
C19_FlatBarsWatchForSweep ==
    \A i \in Calls :
        (Completed /\ FlatBars(BarsAt(i)))
        => /\ FlatFactorSet(FactorsAt(i))
           /\ decisions[i].action = "WATCH"
           /\ MentionsSweep(decisions[i].commentary)

(* C19 amended: flat bars give structure_ok false, liquidity_sweep false,  *)
(* phase ACCUMULATION, neutral bias and rr 0, and the Decision is WAIT in  *)
(* mode "standby" with an empty trade plan.                                *)
C19_FlatBarsWait ==
    \A i \in Calls :
        (Completed /\ FlatBars(BarsAt(i)))
        => /\ FlatFactorSet(FactorsAt(i))
           /\ FactorsAt(i).po3_bias = "neutral"
           /\ FactorsAt(i).rr = 0
           /\ decisions[i].action = "WAIT"
           /\ decisions[i].mode = "standby"
           /\ decisions[i].trade_plan = EmptyDict

C19_Witness ==
    \E i \in Calls :
        /\ Completed
        /\ FlatBars(BarsAt(i))
        /\ Len(BarsAt(i)) = SeriesLen
        /\ decisions[i].action = "WAIT"
        /\ decisions[i].commentary = <<"Regime gate: chop or extreme volatility">>

(* Scenario D: the Candle Source returned no bars for the symbol *)
EmptyBars(i) == BarsAt(i) = <<>>

Unavailable(i) == Len(BarsAt(i)) < MIN_BARS

Finished == pc \in {"idle", "failed"}

(* C21: when a symbol's series is unavailable the symbol gets the neutral  *)
(* Factor Set and the cycle still returns exactly one Decision for every   *)
(* symbol of the profile list.                                             *)
C21_OutageNeverBlocks ==
    (Finished /\ \E i \in 1..Len(profiles) : Unavailable(i))
    => /\ Completed
       /\ Len(decisions) = Len(profiles)
       /\ \A i \in 1..Len(profiles) :
             /\ decisions[i].symbol = profiles[i]
             /\ Unavailable(i)
                => FactorsAt(i) = NeutralFactors(FactorsAt(i).news_block)

(* the po3_bias build_snapshot derives from a 15m series *)
ExtractedBias(df) ==
    IF detect_sweep(df).above THEN "bearish"
    ELSE IF detect_sweep(df).below THEN "bullish"
    ELSE price_action_bias(df)

(* enough bars, a directional bias and an ATR of zero: the stop would      *)
(* equal the entry                                                         *)
ZeroAtrDirectional(i) ==
    /\ ~Unavailable(i)
    /\ ExtractedBias(BarsAt(i)) \in Directional
    /\ atr(BarsAt(i)) = 0

(* C22: when the ATR of a symbol with a directional bias is zero the       *)
(* extractor substitutes the unavailable sentinel for its levels, gives it *)
(* rr = 0, raises nothing, and the Factor Sets and Decisions of every      *)
(* symbol are still produced in that cycle.                                *)
C22_ZeroAtrDegrades ==
    (Finished /\ \E i \in 1..Len(profiles) : ZeroAtrDirectional(i))
    => /\ Completed
       /\ Len(decisions) = Len(profiles)
       /\ \A i \in 1..Len(profiles) :
             ZeroAtrDirectional(i)
             => /\ FactorsAt(i).stop = TBD
                /\ FactorsAt(i).tp1 = TBD
                /\ FactorsAt(i).rr = 0

---------------------------------------------------------------------------
(* Sizing (SpecSizing): sized[i] is what apply_sizing returned for the      *)
(* Decision of decide_from_factors, gated[i], and the Factor Set.          *)

Sizings == DOMAIN sized

EntryAt(i) == Get(FactorsAt(i), "entry", TBD)

StopAt(i) == Get(FactorsAt(i), "stop", TBD)

(* a level float() accepts and that is a finite number *)
FiniteLevel(x) == x # TBD /\ x \notin NotFinite

C24_NoSizeWithoutFiniteLevels ==
    \A i \in Sizings :
        ( \/ ~FiniteLevel(EntryAt(i))
          \/ ~FiniteLevel(StopAt(i))
          \/ gated[i].mode = "standby" )
        => /\ sized[i].risk_pct = 0
           /\ sized[i].size = [num |-> 0, den |-> 1]

DecisionModes == {"sniper", "continuation", "standby"}

(* the Decision at position i went through the sizing arithmetic *)
WasSized(i) == "base_risk_pct" \in DOMAIN sized[i].meta

(* C25: the base risk rate apply_sizing uses for a Decision differs from   *)
(* the rate of each of the other two Decision modes.                       *)
C25_DistinctBaseRates ==
    \A i \in Sizings :
        WasSized(i)
        => \A other \in DecisionModes \ {sized[i].mode} :
              _mode_base_risk_pct(other) # sized[i].meta.base_risk_pct

---------------------------------------------------------------------------
(* Alerts over refresh cycles.  Sent(i) == the i-th call of                *)
(* send_telegram_message by maybe_send_trade_alerts returned true.         *)

Sent(i) == i \in DOMAIN alert_log /\ alert_log[i].ok

(* two successful sends for one symbol, the later one less than 60 minutes *)
(* after the earlier                                                       *)
SameWindow(i, j) ==
    /\ Sent(i) /\ Sent(j) /\ i < j
    /\ alert_log[i].symbol = alert_log[j].symbol
    /\ alert_log[j].ts - alert_log[i].ts < 3600

(* j is the next successful send for the symbol of i *)
NextSent(i, j) ==
    /\ Sent(i) /\ Sent(j) /\ i < j
    /\ alert_log[i].symbol = alert_log[j].symbol
    /\ \A k \in DOMAIN alert_log :
          (i < k /\ k < j /\ Sent(k)) => alert_log[k].symbol # alert_log[i].symbol

AlertFloor(e) ==
    IF e.setup = "CONTINUATION" \/ e.mode = "continuation" THEN 65 ELSE 80

(* C27: under every toggle setting, every Decision maybe_send_trade_alerts *)
(* sends an alert for has action BUY NOW or SELL NOW and a confidence at   *)
(* or above its floor                                                      *)
C27_AlertsOnlyAboveFloor ==
    \A i \in DOMAIN alert_log :
        Sent(i) => /\ alert_log[i].action \in {"BUY NOW", "SELL NOW"}
                   /\ alert_log[i].confidence >= AlertFloor(alert_log[i])

(* the alert record of app.py for a symbol: last_alerted_action and        *)
(* last_alerted_ts, <<"None", 0>> while nothing is recorded                *)
AlertRecord(la, lts, sym) ==
    << sym \in DOMAIN la, Get(la, sym, "None"), sym \in DOMAIN lts, Get(lts, sym, 0) >>

(* the alert record of alerts/telegram.py for a symbol: its keys in        *)
(* sent_alerts and its tg_last_<symbol> stamp                              *)
OnceRecord(sent, tg, sym) ==
    << { k \in sent : k[1] = sym }, sym \in DOMAIN tg, Get(tg, sym, 0) >>

(* C28: a step in which no send for a symbol returned true leaves the      *)
(* symbol's alert record as it was, in maybe_send_trade_alerts             *)
(* (last_alerted_action, last_alerted_ts) and in send_trade_alert_once     *)
(* (sent_alerts, tg_last_<symbol>)                                         *)
C28_RecordOnlyAfterSend ==
    [][ \A sym \in SymbolsOf(profiles) :
          /\ (\A k \in (Len(alert_log) + 1)..Len(alert_log') :
                 ~(alert_log'[k].symbol = sym /\ alert_log'[k].ok))
             => AlertRecord(last_alerted_action', last_alerted_ts', sym)
                  = AlertRecord(last_alerted_action, last_alerted_ts, sym)
          /\ (\A k \in (Len(once_log) + 1)..Len(once_log') :
                 ~(once_log'[k].symbol = sym /\ once_log'[k].ok))
             => OnceRecord(sent_alerts', tg_last', sym) = OnceRecord(sent_alerts, tg_last, sym)
      ]_vars

(* on both paths a send that failed was tried again on a later cycle for   *)
(* the same symbol and action, and went out: no record stood in its way    *)
C28_Witness ==
    /\ \E i, j \in DOMAIN alert_log :
          /\ i < j
          /\ ~alert_log[i].ok /\ alert_log[j].ok
          /\ alert_log[i].symbol = alert_log[j].symbol
          /\ alert_log[i].action = alert_log[j].action
          /\ alert_log[j].last = "None"
    /\ \E i, j \in DOMAIN once_log :
          /\ i < j
          /\ once_log[i].called /\ ~once_log[i].ok /\ once_log[j].ok
          /\ once_log[i].symbol = once_log[j].symbol
          /\ once_log[i].action = once_log[j].action
          /\ once_log[j].ts > once_log[i].ts

---------------------------------------------------------------------------
(* The paper portfolio over refresh cycles.  A step of SpecSession is one  *)
(* update_portfolio call on decisions' and factors_by_symbol' at now'.     *)

OpenSet(p) == { p.open_positions[k] : k \in DOMAIN p.open_positions }

OpenFor(p, sym) == { k \in DOMAIN p.open_positions : p.open_positions[k].symbol = sym }

SideOf(action) == IF action = "BUY NOW" THEN "buy" ELSE "sell"

(* the trade records the step appended *)
NewTrades ==
    { portfolio'.closed_trades[k] :
        k \in (Len(portfolio.closed_trades) + 1)..Len(portfolio'.closed_trades) }

(* the portfolio as the signals of the call find it: after the bar check   *)
(* and the mark to market of step 1                                        *)
BeforeSignals == MarkToMarket(portfolio, factors_by_symbol', now')

(* C29: after every update_portfolio call each symbol has at most one open *)
(* position; a position the call opened belongs to a BUY NOW/SELL NOW      *)
(* Decision of that symbol and side, and any position the signal found for *)
(* the symbol was on the other side and was closed first; a signal on the  *)
(* side of the position it finds leaves that position as it is             *)
C29_OnePositionPerSymbol ==
    [][ /\ \A sym \in SymbolsOf(profiles) : Cardinality(OpenFor(portfolio', sym)) <= 1
        /\ \A pos \in OpenSet(portfolio') \ OpenSet(BeforeSignals) :
              /\ \E i \in DOMAIN decisions' :
                    /\ decisions'[i].symbol = pos.symbol
                    /\ decisions'[i].action \in {"BUY NOW", "SELL NOW"}
                    /\ SideOf(decisions'[i].action) = pos.side
              /\ pos.opened_at = now'
              /\ \A old \in OpenSet(BeforeSignals) :
                    old.symbol = pos.symbol
                    => /\ old.side # pos.side
                       /\ \E tr \in NewTrades :
                             /\ tr.symbol = old.symbol /\ tr.opened_at = old.opened_at
                             /\ tr.reason = "REVERSE"
        /\ \A i \in DOMAIN decisions' :
              decisions'[i].action \in {"BUY NOW", "SELL NOW"}
              => \A old \in OpenSet(BeforeSignals) :
                    (old.symbol = decisions'[i].symbol /\ old.side = SideOf(decisions'[i].action))
                    => old \in OpenSet(portfolio')
      ]_vars

(* both symbols hold a position, and EURUSD's buy, opened at the first     *)
(* rebuild, has since met a second BUY NOW Decision                        *)
C29_Witness ==
    /\ now = 10800
    /\ snapshot_cache # EmptyDict /\ snapshot_cache.ts = 10800
    /\ decisions[1].symbol = "EURUSD" /\ decisions[1].action = "BUY NOW"
    /\ \E k \in OpenFor(portfolio, "EURUSD") :
          /\ portfolio.open_positions[k].side = "buy"
          /\ portfolio.open_positions[k].opened_at = 9000
    /\ OpenFor(portfolio, "XAUUSD") # {}

(* a position, and the trade record made of it, are named by symbol and   *)
(* opening time                                                            *)
PosKey(x) == <<x.symbol, x.opened_at>>

NewTradeIndices == (Len(portfolio.closed_trades) + 1)..Len(portfolio'.closed_trades)

(* C30: in every update_portfolio call, a position that leaves             *)
(* open_positions gets exactly one trade record appended in that call,     *)
(* with reason STOP, TP1 or REVERSE; every appended record is that of a    *)
(* position that was open before the call and is open no longer; and the   *)
(* records already in closed_trades stay                                   *)
C30_CloseIsAtomic ==
    [][ /\ SubSeq(portfolio'.closed_trades, 1, Len(portfolio.closed_trades)) = portfolio.closed_trades
        /\ \A old \in OpenSet(portfolio) :
              (\A pos \in OpenSet(portfolio') : PosKey(pos) # PosKey(old))
              => Cardinality({ k \in NewTradeIndices :
                                 PosKey(portfolio'.closed_trades[k]) = PosKey(old) }) = 1
        /\ \A k \in NewTradeIndices :
              LET tr == portfolio'.closed_trades[k]
              IN  /\ tr.reason \in {"STOP", "TP1", "REVERSE"}
                  /\ tr.closed_at = now'
                  /\ \E old \in OpenSet(portfolio) :
                        /\ PosKey(old) = PosKey(tr)
                        /\ old.side = tr.side /\ old.size = tr.size /\ old.entry = tr.entry
                  /\ \A pos \in OpenSet(portfolio') : PosKey(pos) # PosKey(tr)
      ]_vars

(* one position has been closed by a bar (at its stop or its target) and   *)
(* another by a reversal, whose symbol now holds the opposite position;    *)
(* each has its record and neither is still open                           *)
C30_Witness ==
    LET trades == { portfolio.closed_trades[k] : k \in DOMAIN portfolio.closed_trades }
    IN  /\ \E tr \in trades : tr.reason \in {"STOP", "TP1"}
        /\ \A tr \in trades : \A pos \in OpenSet(portfolio) : PosKey(pos) # PosKey(tr)
        /\ \E tr \in trades :
              /\ tr.reason = "REVERSE"
              /\ \E pos \in OpenSet(portfolio) :
                    pos.symbol = tr.symbol /\ pos.opened_at = tr.closed_at /\ pos.side # tr.side

---------------------------------------------------------------------------
(* the part of a dict that belongs to one symbol *)
Own(d, sym) == [ k \in (DOMAIN d) \cap {sym} |-> d[k] ]

(* the call made for one symbol alone: its profile, its Factor Set, its    *)
(* cooldown record and the clock                                           *)
Alone(sym) ==
    run_decisions(<<sym>>, Own(factors_by_symbol, sym), Own(prev_fired, sym),
                  Own(prev_fired_ts, sym), now)

(* C31: the Decision and the cooldown record that run_decisions leaves for *)
(* a symbol are those of the call made for that symbol alone, with its own *)
(* Factor Set, its own cooldown record and the same clock: neither the     *)
(* other symbol's factors nor the order of the profiles enters.            *)
C31_NoCrossSymbolDependency ==
    (pc = "idle" /\ DOMAIN decisions = DOMAIN profiles) =>
        \A i \in DOMAIN profiles :
            /\ decisions[i] = Alone(profiles[i]).acc.decisions[1]
            /\ Own(last_fired, profiles[i]) = Alone(profiles[i]).lf
            /\ Own(last_fired_ts, profiles[i]) = Alone(profiles[i]).lts

(* the first symbol fires BUY NOW and writes its record, the second        *)
(* proposed BUY NOW too and is held back by its own record of ten minutes  *)
(* ago, which stays                                                        *)
C31_Witness ==
    /\ pc = "idle"
    /\ profiles = <<"XAUUSD", "EURUSD">>
    /\ DOMAIN decisions = {1, 2}
    /\ DOMAIN prev_fired = {"EURUSD"}
    /\ decisions[1].action = "BUY NOW"
    /\ last_fired["XAUUSD"] = "BUY NOW" /\ last_fired_ts["XAUUSD"] = now
    /\ proposed[2].action = "BUY NOW"
    /\ decisions[2].action = "WAIT"
    /\ last_fired_ts["EURUSD"] = now - 600

---------------------------------------------------------------------------
(* compute_fvg_context on the frame of the latest call *)
FvgFrame == candles["EURUSD"].df

LastClose == FvgFrame[Len(FvgFrame)].close

(* the bars that came after the three that formed the zone *)
BarsAfter(z) == { FvgFrame[i] : i \in (z.end + 1)..Len(FvgFrame) }

(* one of them reached into the zone *)
EnteredAfter(z) ==
    \E b \in BarsAfter(z) :
        IF z.type = "bull" THEN b.low <= _zone_bounds(z).hi ELSE b.high >= _zone_bounds(z).lo

(* one of them reached the far side of the zone *)
TradedThroughAfter(z) ==
    \E b \in BarsAfter(z) :
        IF z.type = "bull" THEN b.low <= _zone_bounds(z).lo ELSE b.high >= _zone_bounds(z).hi

(* the score of zone z of the frame, had it the given age and life *)
ScoreAt(z, age_bars, life) ==
    ZoneScore(ZoneProximity(z, LastClose).prox, age_bars, ZoneSize(z, LastClose), life, LastClose)

(* the score the loop of compute_fvg_context gives zone z *)
ScoreOf(z) == ScoreAt(z, ZoneAge(FvgFrame, z), ZoneLife(FvgFrame, z))

(* the ages compared *)
MaxAge == 70

(* C32: for every gap compute_fvg_context scores, the score does not grow  *)
(* with the gap's age in bars when proximity, size and life stay as they   *)
(* are (whichever of the three lives), and a gap that price has fully      *)
(* traded through scores 0; when all shown gaps are traded through,        *)
(* fvg_score is 0.                                                         *)
C32_ScoreFadesWithAge ==
    (pc = "idle" /\ fvg_ctx # EmptyDict) =>
        /\ \A k \in DOMAIN fvg_ctx.fvgs :
              /\ \A life \in {0, 1, 2} : \A a1 \in 0..MaxAge : \A a2 \in a1..MaxAge :
                    ScoreAt(fvg_ctx.fvgs[k], a1, life) >= ScoreAt(fvg_ctx.fvgs[k], a2, life)
              /\ TradedThroughAfter(fvg_ctx.fvgs[k]) => ScoreOf(fvg_ctx.fvgs[k]) = 0
        /\ (\A k \in DOMAIN fvg_ctx.fvgs : TradedThroughAfter(fvg_ctx.fvgs[k]))
              => fvg_ctx.fvg_score = 0

(* a gap thirty bars old, near the close, that a later bar traded through: *)
(* it scores 0, and at life 1.0 it would score less than at three bars     *)
C32_Witness ==
    /\ pc = "idle"
    /\ fvg_ctx # EmptyDict
    /\ Len(fvg_ctx.fvgs) = 1
    /\ fvg_ctx.near_fvg
    /\ TradedThroughAfter(fvg_ctx.fvgs[1])
    /\ ZoneAge(FvgFrame, fvg_ctx.fvgs[1]) = 30
    /\ ScoreOf(fvg_ctx.fvgs[1]) = 0
    /\ fvg_ctx.fvg_score = 0
    /\ ScoreAt(fvg_ctx.fvgs[1], 30, 2) < ScoreAt(fvg_ctx.fvgs[1], 3, 2)

(* C33: a gap that no bar after its formation has entered has life 1.0,    *)
(* one entered but not traded through 0.5, one traded through 0; an        *)
(* untouched gap with the close inside its padded zone gives a positive    *)
(* fvg_score.                                                              *)
C33_LifeByTouch ==
    (pc = "idle" /\ fvg_ctx # EmptyDict) =>
        \A k \in DOMAIN fvg_ctx.fvgs :
            LET z == fvg_ctx.fvgs[k]
            IN  /\ ZoneLife(FvgFrame, z) =
                      (IF TradedThroughAfter(z) THEN 0 ELSE IF EnteredAfter(z) THEN 1 ELSE 2)
                /\ (~EnteredAfter(z) /\ ZoneProximity(z, LastClose).inside)
                      => fvg_ctx.fvg_score > 0

---------------------------------------------------------------------------
(* the Factor Sets build_snapshot wrote in the latest cycle *)
Extracted == { factors_by_symbol[sym] : sym \in DOMAIN factors_by_symbol }

(* C34: in every Factor Set of build_snapshot, po3_phase is MANIPULATION   *)
(* exactly when liquidity_sweep holds without mss_shift, DISTRIBUTION      *)
(* exactly when mss_shift holds together with liquidity_sweep or with      *)
(* structure_ok_continuation, and ACCUMULATION otherwise;                  *)
(* distribution_active is true exactly when the phase is DISTRIBUTION, and *)
(* mss_shift is true only when po3_bias is bullish or bearish.             *)
C34_PhaseBySweepAndMss ==
    \A f \in Extracted :
        /\ f.po3_phase \in {"MANIPULATION", "DISTRIBUTION", "ACCUMULATION"}
        /\ (f.po3_phase = "MANIPULATION") = (f.liquidity_sweep /\ ~f.mss_shift)
        /\ (f.po3_phase = "DISTRIBUTION")
              = (f.mss_shift /\ (f.liquidity_sweep \/ f.structure_ok_continuation))
        /\ f.distribution_active = (f.po3_phase = "DISTRIBUTION")
        /\ f.mss_shift => f.po3_bias \in {"bullish", "bearish"}

(* one cycle with an MSS and no sweep for both symbols: with continuation  *)
(* structure the phase is DISTRIBUTION, without it ACCUMULATION            *)
C34_Witness ==
    /\ pc = "idle"
    /\ \E f \in Extracted :
          /\ f.mss_shift /\ ~f.liquidity_sweep /\ f.structure_ok_continuation
          /\ f.po3_phase = "DISTRIBUTION" /\ f.distribution_active
    /\ \E f \in Extracted :
          /\ f.mss_shift /\ ~f.liquidity_sweep /\ ~f.structure_ok_continuation
          /\ f.po3_phase = "ACCUMULATION" /\ ~f.distribution_active

---------------------------------------------------------------------------
(* C35: when the Factor Set has structure_ok false (or missing) or         *)
(* volatility_risk extreme, the Decision run_decisions returns for the     *)
(* symbol is WAIT with an empty trade plan, whatever decide_from_factors   *)
(* proposed, and the symbol's cooldown record is what it was before the    *)
(* call.                                                                   *)
C35_RegimeStopWaits ==
    \A i \in Calls :
        (~Get(FactorsAt(i), "structure_ok", FALSE)
           \/ Get(FactorsAt(i), "volatility_risk", "normal") = "extreme")
        => /\ decisions[i].action = "WAIT"
           /\ DOMAIN decisions[i].trade_plan = {}
           /\ Own(last_fired, profiles[i]) = Own(prev_fired, profiles[i])
           /\ Own(last_fired_ts, profiles[i]) = Own(prev_fired_ts, profiles[i])

(* a sniper BUY NOW with its breakout named, in extreme volatility with    *)
(* sound structure: WAIT, and the SELL NOW record of ten minutes ago stays *)
C35_Witness ==
    /\ Calls = {1}
    /\ Get(FactorsAt(1), "structure_ok", FALSE)
    /\ Get(FactorsAt(1), "volatility_risk", "normal") = "extreme"
    /\ Get(FactorsAt(1), "bull_break", FALSE)
    /\ gated[1].action = "BUY NOW"
    /\ gated[1].mode = "sniper"
    /\ decisions[1].action = "WAIT"
    /\ decisions[1].trade_plan = EmptyDict
    /\ last_fired = [k \in {"EURUSD"} |-> "SELL NOW"]
    /\ last_fired_ts = [k \in {"EURUSD"} |-> now - 600]

---------------------------------------------------------------------------
(* the calls of send_trade_alert_once that returned true *)
OnceSent == { i \in DOMAIN once_log : once_log[i].ok }

(* C36: over the calls of send_trade_alert_once in one session, a true     *)
(* return is given only for a BUY NOW/SELL NOW Decision with confidence at *)
(* least 9.0 and trade_plan rr at least 2.0, at least 15 minutes after the *)
(* previous true return for the symbol, and at most once for each symbol   *)
(* and action.                                                             *)
C36_OnceOnlyQualifiedAndSpaced ==
    \A i \in OnceSent :
        /\ once_log[i].action \in {"BUY NOW", "SELL NOW"}
        /\ once_log[i].confidence >= 90
        /\ once_log[i].rr >= 20
        /\ \A j \in OnceSent :
              (j < i /\ once_log[j].symbol = once_log[i].symbol)
              => /\ once_log[i].ts - once_log[j].ts >= 900
                 /\ once_log[j].action # once_log[i].action

(* BUY NOW sent, SELL NOW sent for the symbol twenty minutes later, a      *)
(* second BUY NOW at confidence 10.0 refused after that                    *)
C36_Witness ==
    /\ \E i, k, j \in DOMAIN once_log :
          /\ i < k /\ k < j
          /\ once_log[i].ok /\ once_log[i].action = "BUY NOW"
          /\ once_log[k].ok /\ once_log[k].action = "SELL NOW"
          /\ once_log[k].symbol = once_log[i].symbol
          /\ once_log[k].ts - once_log[i].ts = 1200
          /\ ~once_log[j].called /\ once_log[j].action = "BUY NOW" /\ once_log[j].confidence = 100
          /\ once_log[j].rr >= 20

---------------------------------------------------------------------------
(* the Factor Set of a symbol as the script hands it on: with the frame    *)
(* under "df", of which the last bar is kept                               *)
Handed(sym) ==
    LET df == candles[sym].df
    IN  IF "rr" \in DOMAIN factors_by_symbol[sym] /\ df # <<>>
          THEN Update(factors_by_symbol[sym], [df |-> << df[Len(df)] >>])
          ELSE factors_by_symbol[sym]

HandedFactors == [ sym \in DOMAIN factors_by_symbol |-> Handed(sym) ]

(* the Decisions as build_snapshot returns them, metadata written on *)
Returned == [ i \in DOMAIN decisions |-> InjectMeta(decisions[i], HandedFactors[decisions[i].symbol]) ]

(* C37: in the full refresh cycle every Factor Set has rr 0.0 or 2.0 and   *)
(* none of the keys min_rr, bull_break, bear_break; every Decision of      *)
(* run_decisions is WATCH or WAIT; no cooldown record is written; and      *)
(* update_portfolio and maybe_send_trade_alerts, run on what the cycle     *)
(* returned, open no position and call send_telegram_message for nothing,  *)
(* under every setting of the two alert toggles.                           *)
C37_CycleNeverFires ==
    /\ \A f \in Extracted :
          /\ f.rr \in {0, 20}
          /\ DOMAIN f \cap {"min_rr", "bull_break", "bear_break"} = {}
    /\ \A i \in DOMAIN decisions : decisions[i].action \in {"WATCH", "WAIT"}
    /\ last_fired = EmptyDict
    /\ last_fired_ts = EmptyDict
    /\ (pc = "idle") =>
          /\ update_portfolio(portfolio, Returned, HandedFactors, now) = portfolio
          /\ \A mode3, highconf \in BOOLEAN :
                \A oks \in [ SymbolsOf(profiles) -> BOOLEAN ] :
                    maybe_send_trade_alerts(Returned,
                        [ last_action |-> last_alerted_action, last_ts |-> last_alerted_ts,
                          log |-> alert_log ],
                        now, mode3, highconf, oks).log = <<>>

(* a cycle in which decide_from_factors fired on extracted factors with rr *)
(* 2.0 and run_decisions returned WATCH                                    *)
C37_Witness ==
    /\ pc = "idle"
    /\ \E i \in DOMAIN decisions :
          /\ gated[i].action \in {"BUY NOW", "SELL NOW"}
          /\ factors_by_symbol[profiles[i]].rr = 20
          /\ factors_by_symbol[profiles[i]].structure_ok
          /\ factors_by_symbol[profiles[i]].volatility_risk # "extreme"
          /\ decisions[i].action = "WATCH"
    /\ portfolio = init_portfolio_state
    /\ alert_log = <<>>

---------------------------------------------------------------------------
(* C38: in every Factor Set of build_snapshot, liquidity_sweep together    *)
(* with mss_shift gives po3_phase DISTRIBUTION, the sniper preconditions   *)
(* of decide_from_factors do not hold, and no Decision of the cycle,       *)
(* before or after run_decisions' rules, has mode "sniper".                *)
C38_ExtractionNeverSnipes ==
    /\ \A f \in Extracted :
          /\ (f.liquidity_sweep /\ f.mss_shift) => f.po3_phase = "DISTRIBUTION"
          /\ ~SniperPreconditions(f)
    /\ \A i \in DOMAIN gated : gated[i].mode # "sniper"
    /\ \A i \in DOMAIN decisions : decisions[i].mode # "sniper"

(* a sweep closed by an MSS with every other sniper input met and the      *)
(* sniper confidence at its threshold: the phase is DISTRIBUTION and the   *)
(* Decision is not a sniper one                                            *)
C38_Witness ==
    /\ pc = "idle"
    /\ \E i \in DOMAIN gated :
          LET f == factors_by_symbol[profiles[i]]
          IN  /\ f.liquidity_sweep /\ f.mss_shift
              /\ f.accumulation_detected /\ f.agreement_reclaim
              /\ f.entry_confirmed_sniper /\ f.session_valid_sniper
              /\ f.rr = 20 /\ f.po3_bias \in {"bullish", "bearish"}
              /\ TableScore(f) + (IF f.sniper_clean THEN 10 ELSE 0) >= 80
              /\ f.po3_phase = "DISTRIBUTION"
              /\ gated[i].mode # "sniper"

---------------------------------------------------------------------------
(* the sum of a sequence of money amounts *)
MoneyTotal(amounts) ==
    LET RECURSIVE Go(_)
        Go(i) == IF i > Len(amounts) THEN MoneyOf(0) ELSE MoneyAdd(amounts[i], Go(i + 1))
    IN  Go(1)

(* starting_equity + sum of pnl over closed_trades + sum of unrealized_pnl *)
(* over the open positions                                                 *)
BookValue(p) ==
    MoneyAdd(MoneyAdd(p.starting_equity,
                      MoneyTotal([ i \in DOMAIN p.closed_trades |-> p.closed_trades[i].pnl ])),
             MoneyTotal([ i \in DOMAIN p.open_positions |-> p.open_positions[i].unrealized_pnl ]))

(* C39: after every update_portfolio call the equity is starting_equity    *)
(* plus the pnl of all closed trades plus the unrealized pnl of the        *)
(* positions still open.                                                   *)
C39_EquityIdentity == portfolio.equity = BookValue(portfolio)

---------------------------------------------------------------------------
(* a run of the script that reused the cached result of build_snapshot *)
CacheReused == now' # now /\ snapshot_cache' = snapshot_cache

(* the Decisions handed to update_portfolio in this run that passed        *)
(* run_decisions as BUY NOW or SELL NOW                                    *)
FiredDelivered ==
    { i \in DOMAIN decisions' : decisions'[i].action \in {"BUY NOW", "SELL NOW"} }

(* the positions opened by the update_portfolio call of this run *)
OpenedNow ==
    { i \in DOMAIN portfolio'.open_positions : portfolio'.open_positions[i].opened_at = now' }

CachedRunOpensNothing == [][ CacheReused => OpenedNow = {} ]_vars

=============================================================================
